---- MODULE Spec2Model ----
(***************************************************************************)
(* Verification model of the camera-guided robotic arm control pipeline:   *)
(*   - RobotArm (backend/hardware/robot_driver.py): clamped moves          *)
(*   - HybridTracker / VideoCamera.find_objects_yolo: detector + tracker   *)
(*   - VideoCamera capture loop and watchdog                               *)
(*   - VisualServoingAgent: search / align / reach state machine           *)
(*   - ContinuousGrabController: distance-driven approach                  *)
(* Joint index i of the source (0-based) is position i+1 of a TLA+         *)
(* sequence.                                                               *)
(***************************************************************************)
EXTENDS Integers, Sequences, FiniteSets, TLC

VARIABLES
    \* ---- RobotArm (robot_driver.py) ----
    simulation_mode,    \* self.simulation_mode
    current_angles,     \* self.current_angles (logical pose)
    serial_open,        \* self.serial is not None and self.serial.is_open
    link,               \* environment: "up" when the serial device answers
    packet,             \* last packet written to the serial channel, <<>> if none
    txCount,            \* number of packets written (capped)
    armPc,              \* "idle" | "interp" (inside the simulated interpolation)
    move_target,        \* clamped_angles of the move_to in progress
    seq_i,              \* move_to_sequenced loop index 0..5, -1 outside a sequence
    seq_target,         \* clamped_target of move_to_sequenced
    armRet,             \* return value of the last finished call: "none", "True", "False"
    io,                 \* history: packets written and ack reads made by the latest
                        \* move_to invocation, and whether it met a serial fault
    ctor_fault          \* history: _connect_serial failed inside __init__

VARIABLES
    \* ---- callers of the RobotArm (app.py manual_control, direct calls) ----
    call,               \* history: the latest call made by a caller, its argument and
                        \* what its acknowledgement read gave
    manual              \* history: the latest /manual_control request and its response

VARIABLES
    \* ---- VideoCamera detection state (camera.py) and HybridTracker ----
    target_object,            \* self.target_object ("none" for None)
    last_detection,           \* self.last_detection: the published Detection list
    last_detection_distance,  \* self.last_detection_distance, in 1/100 cm
    hybrid_mode_active,       \* self.hybrid_mode_active
    tracking_active,          \* HybridTracker.tracking_active
    last_bbox,                \* HybridTracker.last_bbox (x, y, w, h), <<>> for None
    tracker_seed,             \* history: target and label the tracker template came from
    cycle                     \* history: what the last inference cycle saw and did

VARIABLES
    \* ---- VideoCamera capture loop and watchdog (camera.py) ----
    video,                 \* self.video: "None", "closed" (not opened / released), "open"
    stopped,               \* self.stopped
    stale,                 \* time.time() - self.last_frame_time > 5.0
    capPc,                 \* position of _capture_loop
    wdPc,                  \* position of _watchdog_loop
    stopPc,                \* position of stop()
    consecutive_failures,  \* local of _capture_loop
    frames,                \* history: frames published (capped)
    wdReleases,            \* history: forced releases since the last new handle
    releasePending,        \* history: a forced release not yet followed by a reopen
    stopRaised             \* history: stop() raised

VARIABLES
    \* ---- VisualServoingAgent (visual_servoing.py) ----
    running,            \* self.running
    thread,             \* self.thread: the loop thread created last, 0 for None
    state,              \* self.state
    search_dir,         \* self.search_dir
    centered_frames,    \* self.centered_frames
    use_mlp,            \* self.use_mlp: the reach model was loaded
    use_anfis,          \* self.use_anfis: the alignment model was loaded
    servo_target,       \* self.target_object of the agent
    tpc,                \* position of each _servoing_loop thread
    current_base,       \* local current_base of each loop thread
    align_error_x,      \* local error_x of each loop thread inside the inner loop
    reach,              \* locals of _hybrid_ml_reach of each loop thread
    callerPc,           \* position of the caller of stop(): "idle" | "joining"
    cycles,             \* history: detection reads made by the loop threads (capped)
    consec,             \* history: consecutive cycles of the thread that saw |error_x| < 20
    missed,             \* history: consecutive cycles of the thread with no Detection
    seen,               \* history: the thread has seen its target at least once
    swept,              \* history: a sweep step was commanded in the current lost streak
    reachCount,         \* history: entries of the thread into _hybrid_ml_reach
    cbCount,            \* history: on_grab_complete invocations made by the thread
    grasped,            \* history: threads that closed the gripper
    stoppedEarly,       \* history: threads alive at a stop() before closing the gripper
    overlap,            \* history: threads that were alive together with another one
    stops               \* history: stop() calls that returned since the last start (capped)

servoVars == <<running, thread, state, search_dir, centered_frames, use_mlp, use_anfis,
               servo_target, tpc, current_base, align_error_x, reach, callerPc, cycles,
               consec, missed, seen, swept, reachCount, cbCount, grasped,
               stoppedEarly, overlap, stops>>

VARIABLES
    \* ---- ContinuousGrabController (brain/continuous_grab_controller.py) ----
    grab_state,      \* self.state (the value of the GrabState member)
    grab_running,    \* self.running
    grab_target,     \* self.target_object
    error_message,   \* self.error_message ("none" for None)
    grabPc,          \* position of the workflow thread
    grab_centered,   \* local centered_frames of the centering loop
    iteration,       \* local iteration of the approach loop
    grab_angles,     \* local current_angles of the closing and lifting phases
    grabCallerPc,    \* position of the caller of stop(): "idle" | "joining"
    readings,        \* history: what the approach loop of this session has read
    grabStopped,     \* history: stop() was called while this session's thread ran
    grabSessions     \* history: workflow threads started (capped)

grabVars == <<grab_state, grab_running, grab_target, error_message, grabPc,
              grab_centered, iteration, grab_angles, grabCallerPc, readings,
              grabStopped, grabSessions>>

camVars == <<video, stopped, stale, capPc, wdPc, stopPc, consecutive_failures,
             frames, wdReleases, releasePending, stopRaised>>

percVars == <<target_object, last_detection, last_detection_distance,
              hybrid_mode_active, tracking_active, last_bbox, tracker_seed, cycle>>

armVars == <<simulation_mode, ctor_fault, current_angles, serial_open, link, packet,
             txCount, armPc, move_target, seq_i, seq_target, armRet, io>>

callVars == <<call, manual>>

VARIABLES
    \* ---- VideoCamera frame handoff between _capture_loop and _inference_loop ----
    inference_lock,               \* holder of self.inference_lock: "free", "capture", "inference"
    latest_frame_for_inference,   \* number of the frame held there, 0 for None
    image,                        \* local of _capture_loop: number of the frame just read
    frame_to_process,             \* local of _inference_loop, 0 for None
    hcapPc,                       \* position of _capture_loop in the handoff
    infPc,                        \* position of _inference_loop
    newest_at_copy,               \* history: the newest published frame when the copy was made
    detections_run                \* history: calls of find_objects_yolo (capped)

handVars == <<inference_lock, latest_frame_for_inference, image, frame_to_process,
              hcapPc, infPc, newest_at_copy, detections_run>>

VARIABLES
    \* ---- find_objects_yolo interleaved with set_target_object and the
    \* ---- detection query of app.py ----
    rinfPc,          \* position of the inference cycle: "idle" | "computed"
    pending,         \* pending of find_objects_yolo, about to be published
    computed_for,    \* history: the target the cycle read when it built pending
    published_for,   \* history: the target the list in last_detection was built for
    qPc,             \* position of get_detection_result
    qResp            \* the response get_detection_result is building / has returned

raceVars == <<rinfPc, pending, computed_for, published_for, qPc, qResp>>

VARIABLES
    \* ---- a caller of visual_ik_solver (test_visual_grab.py test_inverse_kinematics) ----
    ik_distance,     \* object_distance_cm of the latest call, in 1/100 cm (0 before any)
    ik_reason,       \* reason returned by check_reachability, "none" while it runs
    ik_angles,       \* (shoulder, elbow) of get_wrist_angles in degrees, <<>> for None
    ikPc             \* "idle" | "called"

ikVars == <<ik_distance, ik_reason, ik_angles, ikPc>>

VARIABLES
    \* ---- PickPlaceController (pick_place_controller.py) ----
    pp_running,          \* self.running
    pp_state,            \* self.state
    telemetry_state,     \* self.current_telemetry["state"]
    target_base_angle,   \* self.target_base_angle
    modifier,            \* self.modifier ("none" before the first start)
    ppPc,                \* position of the _execute_sequence thread
    pp_phase,            \* phase the thread is in (phase_name of its _smooth_move)
    pp_i,                \* local i of _smooth_move
    pp_start,            \* local start_angles / current_angles of the phase
    pp_target,           \* local target_angles of the phase
    pp_phases,           \* history: the states the thread has written, in order
    pp_stopped,          \* history: stop() took effect while this session's thread was alive
    pp_after_stop,       \* history: what the thread did after that stop()
    pp_failed            \* history: a move_to of this session returned False

pickVars == <<pp_running, pp_state, telemetry_state, target_base_angle, modifier, ppPc,
              pp_phase, pp_i, pp_start, pp_target, pp_phases, pp_stopped,
              pp_after_stop, pp_failed>>

VARIABLES
    \* ---- VisualGrabController (brain/grab_controller.py) ----
    vg_running,      \* self.running
    vg_state,        \* self.state
    vg_target,       \* self.target_object
    vgPc,            \* position of the _grab_workflow thread
    vg_iteration,    \* local iteration of _phase_2_approach
    vg_aligned,      \* history: robot.current_angles when _phase_1_align returned True
    vg_cmd           \* history: pose of the latest move_to of _phase_2_approach, <<>> before

vgVars == <<vg_running, vg_state, vg_target, vgPc, vg_iteration, vg_aligned, vg_cmd>>

extVars == <<handVars, raceVars, ikVars, pickVars, vgVars>>

vars == <<armVars, callVars, percVars, camVars, servoVars, grabVars, extVars>>

notArmVars == <<percVars, camVars, servoVars, grabVars, extVars>>
notPercVars == <<armVars, callVars, camVars, servoVars, grabVars, extVars>>
notCamVars == <<armVars, callVars, percVars, servoVars, grabVars, extVars>>
notServoVars == <<callVars, camVars, grabVars, extVars>>
notGrabVars == <<callVars, camVars, servoVars, extVars>>
notHandVars == <<armVars, callVars, percVars, camVars, servoVars, grabVars, raceVars,
                 ikVars, pickVars, vgVars>>
notRaceVars == <<armVars, callVars, camVars, servoVars, grabVars, handVars, ikVars, pickVars, vgVars>>
notIkVars == <<armVars, callVars, percVars, camVars, servoVars, grabVars, handVars,
               raceVars, pickVars, vgVars>>
notPickVars == <<callVars, percVars, camVars, servoVars, grabVars, handVars, raceVars,
                 ikVars, vgVars>>
notVgVars == <<callVars, camVars, grabVars, handVars, raceVars, ikVars, pickVars>>

\* ------------------------------------------------------------------------
\* Helpers
\* ------------------------------------------------------------------------
Min(a, b) == IF a < b THEN a ELSE b
Max(a, b) == IF a > b THEN a ELSE b
Abs(a) == IF a < 0 THEN -a ELSE a

\* ------------------------------------------------------------------------
\* RobotArm
\* ------------------------------------------------------------------------
NumJoints == 6
SERVO_MIN == 0
SERVO_MAX == 180
ELBOW_MAX == 150
GRIPPER_MIN == 120
GRIPPER_MAX == 170
InterpSteps == 20

\* Bound on the packet counter kept as history.
MaxTx == 2

\* self.current_angles = [0, 130, 130, 90, 12, 170]
NeutralPose == <<0, 130, 130, 90, 12, 170>>

\* Six-element poses requested by callers: each one exercises a clamp.
PoseInputs ==
    { <<200, -5, 90, 90, 90, 90>>,
      <<23, 100, 140, 90, 12, 155>>,
      <<90, 45, 180, 0, 180, 200>>,
      <<-10, 181, 151, 90, 0, 119>> }

\* Requests of the wrong arity.
BadPoseInputs == { <<90, 90, 90>>, <<1, 2, 3, 4, 5, 6, 7>> }

\* A plausible slip: only the upper limit of the range is enforced.
ClampRangeUpperOnly(angles) ==
    [i \in 1..Len(angles) |-> Min(SERVO_MAX, angles[i])]

\* [max(0, min(180, int(angle))) for angle in angles]
ClampRange(angles) ==
    [i \in 1..Len(angles) |-> Max(SERVO_MIN, Min(SERVO_MAX, angles[i]))]

\* A plausible slip: the safety sub-ranges are forgotten.
SafetyClampNoLimits(c) == c

\* Elbow (index 2) max 150, gripper (index 5) within [120, 170].
SafetyClamp(c) ==
    [i \in 1..Len(c) |->
        IF i = 3 THEN (IF c[i] > ELBOW_MAX THEN ELBOW_MAX ELSE c[i])
        ELSE IF i = 6 THEN (IF c[i] < GRIPPER_MIN THEN GRIPPER_MIN
                            ELSE IF c[i] > GRIPPER_MAX THEN GRIPPER_MAX ELSE c[i])
        ELSE c[i]]

\* clamped_angles of move_to
Clamp(angles) == SafetyClamp(ClampRange(angles))

\* A plausible slip: the neighbouring joint, wrist pitch, is inverted instead.
HardwareAnglesWristPitch(c) ==
    [i \in 1..Len(c) |-> IF i = 4 THEN SERVO_MAX - c[i] ELSE c[i]]

\* hardware_angles: wrist roll (index 4) inverted for transmission
HardwareAngles(c) == [i \in 1..Len(c) |-> IF i = 5 THEN SERVO_MAX - c[i] ELSE c[i]]

\* interp_angles at interpolation step `step` of `InterpSteps`
Interp(start, target, step) ==
    [i \in 1..NumJoints |-> start[i] + ((target[i] - start[i]) * step) \div InterpSteps]

\* A plausible slip: the loop of move_to_sequenced does not look at the result
\* of move_to and goes on to the next joint.
AfterMoveKeepsGoing(ok) ==
    IF seq_i < 0
    THEN /\ armRet' = IF ok THEN "True" ELSE "False"
         /\ UNCHANGED <<seq_i, seq_target>>
    ELSE /\ seq_i' = seq_i + 1
         /\ UNCHANGED <<armRet, seq_target>>

\* Continuation after a move_to returned `ok` (TRUE/FALSE): either the call was a
\* plain move_to, or it was one step of move_to_sequenced.
AfterMove(ok) ==
    IF seq_i < 0
    THEN /\ armRet' = IF ok THEN "True" ELSE "False"
         /\ UNCHANGED <<seq_i, seq_target>>
    ELSE IF ok
         THEN /\ seq_i' = seq_i + 1
              /\ UNCHANGED <<armRet, seq_target>>
         ELSE /\ seq_i' = -1
              /\ armRet' = "False"
              /\ UNCHANGED seq_target

\* What `self.serial.readline()` may give after a packet was written: the
\* token 'K', another line, nothing before the timeout, or an exception of the
\* read or of decode().
AckInputs == {"K", "garbled", "missing", "raises"}

\* A plausible slip: the inner try/except around the read is left out, so an
\* exception of the read reaches the outer handler of move_to.
AckOutcomeNoInnerTry(ack) ==
    CASE ack = "K" -> "confirmed"
      [] ack = "garbled" -> "warned"
      [] ack = "missing" -> "silent"
      [] OTHER -> "error"

\* L144-151: what move_to does with the acknowledgement
AckOutcome(ack) ==
    CASE ack = "K" -> "confirmed"
      [] ack = "garbled" -> "warned"
      [] ack = "missing" -> "silent"
      [] OTHER -> "skipped"

\* Body of move_to(angles) up to its first externally visible pause; `ack` is
\* what the acknowledgement read gives if a packet is written.
MoveToAck(angles, ack) ==
    IF Len(angles) # NumJoints
    THEN /\ AfterMove(FALSE)
         /\ io' = [tx |-> 0, reads |-> 0, fault |-> FALSE]
         /\ UNCHANGED <<simulation_mode, ctor_fault, current_angles, serial_open, link,
                        packet, txCount, armPc, move_target>>
    ELSE IF simulation_mode
    THEN \* the interpolation loop publishes intermediate poses
         /\ \E step \in {1, InterpSteps \div 2, InterpSteps - 1} :
                current_angles' = Interp(current_angles, Clamp(angles), step)
         /\ move_target' = Clamp(angles)
         /\ armPc' = "interp"
         /\ io' = [tx |-> 0, reads |-> 0, fault |-> FALSE]
         /\ UNCHANGED <<simulation_mode, ctor_fault, serial_open, link, packet, txCount,
                        seq_i, seq_target, armRet>>
    ELSE IF link = "down"
    THEN \* _connect_serial or write raises SerialException: return False
         /\ AfterMove(FALSE)
         /\ io' = [tx |-> 0, reads |-> 0, fault |-> TRUE]
         /\ UNCHANGED <<simulation_mode, ctor_fault, current_angles, serial_open, link,
                        packet, txCount, armPc, move_target>>
    ELSE /\ serial_open' = TRUE
         /\ packet' = HardwareAngles(Clamp(angles))
         /\ txCount' = Min(txCount + 1, MaxTx)
         /\ io' = [tx |-> 1, reads |-> 1, fault |-> FALSE]
         /\ IF AckOutcome(ack) = "error"
            THEN /\ AfterMove(FALSE)
                 /\ UNCHANGED current_angles
            ELSE /\ current_angles' = Clamp(angles)
                 /\ AfterMove(TRUE)
         /\ UNCHANGED <<simulation_mode, ctor_fault, link, armPc, move_target>>

\* move_to(angles), whatever the acknowledgement turns out to be
MoveToBody(angles) == \E ack \in AckInputs : MoveToAck(angles, ack)

\* `manual` when the latest call did not come from manual_control
NoManual == [payload |-> <<>>, status |-> "none", angles |-> <<>>, moved |-> FALSE]

\* move_to(angles) called by an idle caller
MoveTo ==
    /\ UNCHANGED notArmVars
    /\ armPc = "idle" /\ seq_i < 0
    /\ \E angles \in PoseInputs \cup BadPoseInputs, ack \in AckInputs :
        /\ MoveToAck(angles, ack)
        /\ call' = [op |-> "move_to", arg |-> angles, ack |-> ack]
    /\ manual' = NoManual

\* self.current_angles = clamped_angles; return True (simulation branch)
MoveToFinish ==
    /\ UNCHANGED notArmVars
    /\ armPc = "interp"
    /\ current_angles' = move_target
    /\ armPc' = "idle"
    /\ AfterMove(TRUE)
    /\ manual' = IF manual.status = "pending"
                 THEN [manual EXCEPT !.status = "success", !.angles = move_target]
                 ELSE manual
    /\ UNCHANGED <<simulation_mode, ctor_fault, serial_open, link, packet, txCount,
                   move_target, io, call>>

\* move_to_sequenced(target_angles): validation and clamped_target
MoveToSequenced ==
    /\ UNCHANGED notArmVars
    /\ armPc = "idle" /\ seq_i < 0
    /\ \E target \in PoseInputs \cup BadPoseInputs :
        /\ call' = [op |-> "move_to_sequenced", arg |-> target, ack |-> "any"]
        /\ IF Len(target) # NumJoints
           THEN /\ armRet' = "False"
                /\ UNCHANGED <<seq_i, seq_target>>
           ELSE /\ seq_target' = ClampRange(target)
                /\ seq_i' = 0
                /\ armRet' = "none"
    /\ manual' = NoManual
    /\ UNCHANGED <<simulation_mode, ctor_fault, current_angles, serial_open, link, packet,
                   txCount, armPc, move_target, io>>

\* A plausible slip: the skip test tolerates a difference of several degrees.
SeqSkipCoarse(cur, tgt) == Abs(cur - tgt) < 15

\* `if abs(self.current_angles[i] - clamped_target[i]) < 1: continue`
SeqSkip(cur, tgt) == Abs(cur - tgt) < 1

\* One iteration of `for i in range(6)` of move_to_sequenced
SeqStep ==
    /\ UNCHANGED notArmVars
    /\ UNCHANGED callVars
    /\ armPc = "idle" /\ seq_i >= 0 /\ seq_i < NumJoints
    /\ IF SeqSkip(current_angles[seq_i + 1], seq_target[seq_i + 1])
       THEN /\ seq_i' = seq_i + 1
            /\ UNCHANGED <<simulation_mode, ctor_fault, current_angles, serial_open, link,
                           packet, txCount, armPc, move_target, seq_target, armRet, io>>
       ELSE MoveToBody([current_angles EXCEPT ![seq_i + 1] = seq_target[seq_i + 1]])

\* `return True` after the loop of move_to_sequenced
SeqDone ==
    /\ UNCHANGED notArmVars
    /\ UNCHANGED callVars
    /\ armPc = "idle" /\ seq_i = NumJoints
    /\ seq_i' = -1
    /\ armRet' = "True"
    /\ UNCHANGED <<simulation_mode, ctor_fault, current_angles, serial_open, link, packet,
                   txCount, armPc, move_target, seq_target, io>>

\* Environment: the USB cable is pulled or plugged back.
LinkChange ==
    /\ UNCHANGED notArmVars
    /\ UNCHANGED callVars
    /\ ~simulation_mode
    /\ link' = IF link = "up" THEN "down" ELSE "up"
    /\ serial_open' = IF link = "up" THEN FALSE ELSE serial_open
    /\ UNCHANGED <<simulation_mode, ctor_fault, current_angles, packet, txCount, armPc,
                   move_target, seq_i, seq_target, armRet, io>>

\* ---- app.py manual_control ----
\* A JSON value of the `angles` list: its Python type and, for a number, its
\* value (True is 1, False is 0).
JInt(n) == [kind |-> "int", v |-> n]
JStr == [kind |-> "str", v |-> 0]
JBool(n) == [kind |-> "bool", v |-> n]

\* Request bodies posted to /manual_control: no list, the payloads of
\* test_manual_control.py, and lists holding a string or a boolean.
ManualInputs ==
    { <<>>,
      <<JInt(45), JInt(60), JInt(90)>>,
      <<JInt(45), JInt(60), JInt(90), JStr, JInt(30), JInt(150)>>,
      <<JInt(45), JInt(60), JInt(90), JInt(200), JInt(30), JInt(0)>>,
      <<JInt(45), JInt(-30), JInt(90), JInt(120), JInt(30), JInt(0)>>,
      <<JInt(45), JInt(60), JInt(90), JBool(1), JInt(30), JInt(150)>>,
      <<JInt(45), JInt(60), JInt(90), JInt(120), JInt(30), JInt(0)>>,
      <<JInt(45), JInt(60), JInt(90), JInt(120), JInt(30), JInt(150)>> }

\* `isinstance(angle, (int, float))`: bool is a subclass of int
IsNumberInstance(x) == x.kind \in {"int", "float", "bool"}

\* L288-299: the request passes every test of manual_control
ManualAccepted(payload) ==
    /\ payload # <<>>
    /\ Len(payload) = NumJoints
    /\ \A i \in 1..Len(payload) :
          IsNumberInstance(payload[i]) /\ ~(payload[i].v < 0 \/ payload[i].v > SERVO_MAX)

\* manual_control(): the validation, then robot.move_to(angles) and the response
ManualControl ==
    /\ UNCHANGED notArmVars
    /\ armPc = "idle" /\ seq_i < 0
    /\ \E payload \in ManualInputs :
        IF ~ManualAccepted(payload)
        THEN /\ manual' = [payload |-> payload, status |-> "400", angles |-> <<>>,
                           moved |-> FALSE]
             /\ call' = [op |-> "manual_control", arg |-> <<>>, ack |-> "none"]
             /\ UNCHANGED armVars
        ELSE LET angles == [i \in 1..Len(payload) |-> payload[i].v] IN
             /\ MoveToBody(angles)
             /\ call' = [op |-> "move_to", arg |-> angles, ack |-> "any"]
             /\ manual' = [payload |-> payload,
                           status |-> IF simulation_mode THEN "pending"
                                      ELSE IF armRet' = "True" THEN "success" ELSE "500",
                           angles |-> IF ~simulation_mode /\ armRet' = "True"
                                      THEN current_angles' ELSE <<>>,
                           moved |-> TRUE]

\* After __init__: simulation asked for, or hardware with the port opened, or
\* hardware asked for and the fallback taken because the port could not be opened
ArmInit ==
    /\ \/ simulation_mode = TRUE /\ ctor_fault = FALSE /\ link = "up"
       \/ simulation_mode = FALSE /\ ctor_fault = FALSE /\ link = "up"
       \/ simulation_mode = TRUE /\ ctor_fault = TRUE /\ link = "down"
    /\ current_angles = NeutralPose
    /\ serial_open = ~simulation_mode
    /\ packet = <<>>
    /\ txCount = 0
    /\ armPc = "idle"
    /\ move_target = NeutralPose
    /\ seq_i = -1
    /\ seq_target = NeutralPose
    /\ armRet = "none"
    /\ io = [tx |-> 0, reads |-> 0, fault |-> FALSE]

CallInit ==
    /\ call = [op |-> "none", arg |-> <<>>, ack |-> "none"]
    /\ manual = NoManual


\* ------------------------------------------------------------------------
\* Detector, HybridTracker and VideoCamera.find_objects_yolo
\* Lengths are pixels; distances are kept in 1/100 cm.
\* ------------------------------------------------------------------------
CAMERA_WIDTH == 1280
CAMERA_HEIGHT == 720
FOCAL_LENGTH_DEFAULT == 1424
GRIPPER_LENGTH_C == 1200
NEAR_THRESHOLD_C == 1500
FAR_DISTANCE_C == 99900
center_tolerance == 25
CONF_YOLO == 90
CONF_TRACKER == 70

\* Bound on the number of boxes the detector returns for one frame.
MaxBoxes == 2

\* KNOWN_OBJECT_WIDTHS, in 1/100 cm; 0 for a class that has no entry
KnownWidthC(name) ==
    CASE name = "bottle" -> 400
      [] name = "cup" -> 800
      [] OTHER -> 0

Targets == {"none", "bottle", "cup"}

\* Boxes as the detector gives them: class, confidence in percent (all above
\* the 0.3 threshold) and [x1, y1, x2, y2].
DetBoxes ==
    { [cls |-> "bottle", conf |-> 50, xyxy |-> <<490, 200, 790, 600>>],   \* near, centred
      [cls |-> "bottle", conf |-> 90, xyxy |-> <<100, 300, 260, 500>>],   \* far, left
      [cls |-> "cup",    conf |-> 90, xyxy |-> <<560, 300, 720, 500>>] }  \* far, centred

\* The detector's answers for one frame: ordered, at most MaxBoxes boxes.
FrameInputs == UNION { [1..n -> DetBoxes] : n \in 0..MaxBoxes }

\* What CSRT's update() may answer: (success, (x, y, w, h)).
TrackerInputs ==
    { [ok |-> FALSE, bbox |-> <<>>],
      [ok |-> TRUE, bbox |-> <<-20, 300, 320, 300>>] }

\* HybridTracker._clamp_bbox
ClampBBox(b) ==
    LET x == Max(0, Min(b[1], CAMERA_WIDTH - 1))
        y == Max(0, Min(b[2], CAMERA_HEIGHT - 1))
    IN  <<x, y, Max(1, Min(b[3], CAMERA_WIDTH - x)), Max(1, Min(b[4], CAMERA_HEIGHT - y))>>

\* A plausible slip: the class filter is ignored.
MatchesAnyClass(box, target) == TRUE

\* `if target_class and cls_name.lower() != target_class.lower(): continue`
Matches(box, target) == target = "none" \/ box.cls = target

\* The loop of get_target that keeps the box of strictly greater confidence
\* (max_conf starts at 0.0); <<>> when no box matches.
RECURSIVE BestDetFrom(_, _, _, _)
BestDetFrom(boxes, target, i, best) ==
    IF i > Len(boxes) THEN best
    ELSE IF Matches(boxes[i], target) /\ (best = <<>> \/ boxes[i].conf > best.conf)
         THEN BestDetFrom(boxes, target, i + 1, boxes[i])
         ELSE BestDetFrom(boxes, target, i + 1, best)

BestDet(boxes, target) == BestDetFrom(boxes, target, 1, <<>>)

\* best_det = (x1, y1, w, h)
XYWH(b) == <<b[1], b[2], b[3] - b[1], b[4] - b[2]>>

\* A plausible slip: a failed tracker update does not discard the session
GetTargetKeepsSession(boxes, target, upd) ==
    LET best == BestDet(boxes, target) IN
    IF best # <<>>
    THEN LET bbox == ClampBBox(XYWH(best.xyxy)) IN
         [source |-> "YOLO", bbox |-> bbox,
          center |-> <<bbox[1] + bbox[3] \div 2, bbox[2] + bbox[4] \div 2>>,
          active |-> TRUE, last |-> bbox,
          seed |-> [target |-> target, cls |-> best.cls]]
    ELSE IF tracking_active /\ upd.ok
    THEN LET bbox == ClampBBox(upd.bbox) IN
         [source |-> "TRACKER", bbox |-> bbox,
          center |-> <<bbox[1] + bbox[3] \div 2, bbox[2] + bbox[4] \div 2>>,
          active |-> TRUE, last |-> bbox, seed |-> tracker_seed]
    ELSE [source |-> "NONE", bbox |-> <<>>, center |-> <<>>,
          active |-> tracking_active, last |-> last_bbox, seed |-> tracker_seed]

\* HybridTracker.get_target: the result record and the tracker's next state.
\* `upd` is the tracker's answer for this frame ([ok, bbox]), used only when
\* the detector found nothing and a session is active.
GetTarget(boxes, target, upd) ==
    LET best == BestDet(boxes, target) IN
    IF best # <<>>
    THEN LET bbox == ClampBBox(XYWH(best.xyxy)) IN
         [source |-> "YOLO", bbox |-> bbox,
          center |-> <<bbox[1] + bbox[3] \div 2, bbox[2] + bbox[4] \div 2>>,
          active |-> TRUE, last |-> bbox,
          seed |-> [target |-> target, cls |-> best.cls]]
    ELSE IF tracking_active
    THEN IF upd.ok
         THEN LET bbox == ClampBBox(upd.bbox) IN
              [source |-> "TRACKER", bbox |-> bbox,
               center |-> <<bbox[1] + bbox[3] \div 2, bbox[2] + bbox[4] \div 2>>,
               active |-> TRUE, last |-> bbox, seed |-> tracker_seed]
         ELSE [source |-> "NONE", bbox |-> <<>>, center |-> <<>>,
               active |-> FALSE, last |-> last_bbox, seed |-> tracker_seed]
    ELSE [source |-> "NONE", bbox |-> <<>>, center |-> <<>>,
          active |-> tracking_active, last |-> last_bbox, seed |-> tracker_seed]

\* round(x / y) for positive operands (calculate_distance rounds to 2 places)
RoundDiv(x, y) == (2 * x + y) \div (2 * y)

\* (real_width * focal_length) / pixel_width, in 1/100 cm
PinholeC(widthC, pixel_width) == RoundDiv(widthC * FOCAL_LENGTH_DEFAULT, pixel_width)

\* The Detection built by the hybrid branch of find_objects_yolo
HybridDetection(res, target, lastDist) ==
    LET obj_name == IF target # "none" THEN target ELSE "bottle"
        w == res.bbox[3]
        error_x == CAMERA_WIDTH \div 2 - res.center[1]
        error_y == CAMERA_HEIGHT \div 2 - res.center[2]
        distance_cm ==
            IF KnownWidthC(obj_name) # 0
            THEN Max(0, (IF w > 0 THEN PinholeC(KnownWidthC(obj_name), w) ELSE FAR_DISTANCE_C)
                        - GRIPPER_LENGTH_C)
            ELSE lastDist
    IN  [object_name |-> obj_name,
         confidence |-> IF res.source = "YOLO" THEN CONF_YOLO ELSE CONF_TRACKER,
         bbox |-> <<res.bbox[1], res.bbox[2], res.bbox[1] + res.bbox[3], res.bbox[2] + res.bbox[4]>>,
         error_x |-> error_x, error_y |-> error_y,
         is_centered |-> Abs(error_x) <= center_tolerance /\ Abs(error_y) <= center_tolerance,
         distance_cm |-> distance_cm,
         source |-> res.source]

\* The Detection built by the standard branch for one detector box;
\* distance_cm is -100 (-1.0) when the class has no known width.
StandardDetection(box) ==
    LET b == box.xyxy
        error_x == CAMERA_WIDTH \div 2 - (b[1] + b[3]) \div 2
        error_y == CAMERA_HEIGHT \div 2 - (b[2] + (b[4] - b[2]) \div 4)
        pw == Abs(b[3] - b[1])
        est == IF KnownWidthC(box.cls) = 0 \/ pw = 0 THEN -100
               ELSE PinholeC(KnownWidthC(box.cls), pw)
    IN  [object_name |-> box.cls,
         confidence |-> box.conf,
         bbox |-> b,
         error_x |-> error_x, error_y |-> error_y,
         is_centered |-> Abs(error_x) <= center_tolerance /\ Abs(error_y) <= center_tolerance,
         distance_cm |-> IF est = -100 THEN -100 ELSE Max(0, est - GRIPPER_LENGTH_C),
         source |-> "YOLO"]

\* detections filtered by target_object, in the detector's order
RECURSIVE FilterBoxes(_, _)
FilterBoxes(boxes, target) ==
    IF boxes = <<>> THEN <<>>
    ELSE IF Matches(Head(boxes), target)
         THEN <<Head(boxes)>> \o FilterBoxes(Tail(boxes), target)
         ELSE FilterBoxes(Tail(boxes), target)

\* last_detection_distance after the standard branch's loop over `dets`
RECURSIVE TrackDistance(_, _)
TrackDistance(dets, d) ==
    IF dets = <<>> THEN d
    ELSE TrackDistance(Tail(dets),
                       IF Head(dets).distance_cm > 0 THEN Head(dets).distance_cm ELSE d)

\* A plausible slip: the hybrid branch is taken whatever the last distance was.
UseHybridAlways(d) == TRUE

\* `use_hybrid = self.last_detection_distance < 15.0`
UseHybrid(d) == d < NEAR_THRESHOLD_C

\* find_objects_yolo(frame) on a frame for which the detector answers `boxes`
\* and the tracker would answer `upd`: the values it leaves in the camera's
\* fields and the list it publishes at L506, L511 or L584.
YoloOutcome(boxes, upd) ==
    IF UseHybrid(last_detection_distance)
    THEN LET res == GetTarget(boxes, target_object, upd)
             det == HybridDetection(res, target_object, last_detection_distance)
             pub == IF res.source # "NONE" THEN <<det>> ELSE <<>>
         IN  [hybrid |-> TRUE, active |-> res.active, last |-> res.last, seed |-> res.seed,
              dist |-> IF res.source # "NONE" THEN det.distance_cm
                       ELSE last_detection_distance,
              published |-> pub,
              cyc |-> [boxes |-> boxes, target |-> target_object, hybrid |-> TRUE,
                       result |-> [source |-> res.source, bbox |-> res.bbox],
                       published |-> pub,
                       was_active |-> tracking_active, upd_ok |-> upd.ok,
                       dist_before |-> last_detection_distance]]
    ELSE LET dets == FilterBoxes(boxes, target_object)
             new_detections == [i \in 1..Len(dets) |-> StandardDetection(dets[i])]
         IN  [hybrid |-> FALSE, active |-> tracking_active, last |-> last_bbox,
              seed |-> tracker_seed,
              dist |-> TrackDistance(new_detections, last_detection_distance),
              published |-> new_detections,
              cyc |-> [boxes |-> boxes, target |-> target_object, hybrid |-> FALSE,
                       result |-> [source |-> "NONE", bbox |-> <<>>],
                       published |-> new_detections,
                       was_active |-> tracking_active, upd_ok |-> upd.ok,
                       dist_before |-> last_detection_distance]]

\* find_objects_yolo(frame): one inference cycle run without interruption
FindObjectsYolo(boxes, upd) ==
    LET o == YoloOutcome(boxes, upd) IN
    /\ hybrid_mode_active' = o.hybrid
    /\ tracking_active' = o.active
    /\ last_bbox' = o.last
    /\ tracker_seed' = o.seed
    /\ last_detection_distance' = o.dist
    /\ last_detection' = o.published
    /\ cycle' = o.cyc

\* One pass of _inference_loop in 'yolo' mode
InferenceCycle ==
    /\ UNCHANGED notPercVars
    /\ UNCHANGED target_object
    /\ \E boxes \in FrameInputs, upd \in TrackerInputs : FindObjectsYolo(boxes, upd)

\* set_target_object(object_name) / clear_target_object()
SetTargetObject ==
    /\ UNCHANGED notPercVars
    /\ target_object' \in Targets
    /\ last_detection' = <<>>
    /\ UNCHANGED <<last_detection_distance, hybrid_mode_active, tracking_active,
                   last_bbox, tracker_seed, cycle>>

PercInit ==
    /\ target_object = "none"
    /\ last_detection = <<>>
    /\ last_detection_distance = FAR_DISTANCE_C
    /\ hybrid_mode_active = FALSE
    /\ tracking_active = FALSE
    /\ last_bbox = <<>>
    /\ tracker_seed = [target |-> "none", cls |-> "none"]
    /\ cycle = [boxes |-> <<>>, target |-> "none", hybrid |-> FALSE,
                result |-> [source |-> "NONE", bbox |-> <<>>],
                published |-> <<>>,
                was_active |-> FALSE, upd_ok |-> FALSE,
                dist_before |-> FAR_DISTANCE_C]

PercNext == InferenceCycle \/ SetTargetObject

\* ------------------------------------------------------------------------
\* VideoCamera: _capture_loop, _open_camera, _watchdog_loop, stop
\* ------------------------------------------------------------------------
\* `if consecutive_failures > 10`
FAILURE_THRESHOLD == 10

\* Bound on the history counters of the capture model.
MaxFrames == 2

\* L180-182: `while not self.stopped:` and the heartbeat update
CapTop ==
    /\ UNCHANGED notCamVars
    /\ capPc = "top"
    /\ IF stopped
       THEN capPc' = "exit" /\ UNCHANGED stale
       ELSE capPc' = "check" /\ stale' = FALSE
    /\ UNCHANGED <<video, stopped, wdPc, stopPc, consecutive_failures, frames,
                   wdReleases, releasePending, stopRaised>>

\* L185, first operand: `self.video is None`
CapCheckNone ==
    /\ UNCHANGED notCamVars
    /\ capPc = "check"
    /\ capPc' = IF video = "None" THEN "open_install" ELSE "check_opened"
    /\ UNCHANGED <<video, stopped, stale, wdPc, stopPc, consecutive_failures, frames,
                   wdReleases, releasePending, stopRaised>>

\* L185, second operand: `not self.video.isOpened()`, evaluated outside the
\* try block: an AttributeError on None ends the thread.
CapCheckOpened ==
    /\ UNCHANGED notCamVars
    /\ capPc = "check_opened"
    /\ capPc' = CASE video = "None" -> "dead"
                  [] video = "closed" -> "open_install"
                  [] OTHER -> "try"
    /\ UNCHANGED <<video, stopped, stale, wdPc, stopPc, consecutive_failures, frames,
                   wdReleases, releasePending, stopRaised>>

\* _open_camera L805-808: release an opened handle, install a new VideoCapture
OpenCameraInstall ==
    /\ UNCHANGED notCamVars
    /\ capPc = "open_install"
    /\ video' = "closed"
    /\ capPc' = "open_try"
    /\ wdReleases' = 0
    /\ releasePending' = FALSE
    /\ UNCHANGED <<stopped, stale, wdPc, stopPc, consecutive_failures, frames, stopRaised>>

\* _open_camera L814-832: self.video.open(...), isOpened(), read(); called from
\* L187, outside the try block. `ok` is whether some backend delivered a frame.
OpenCameraTry ==
    /\ UNCHANGED notCamVars
    /\ capPc = "open_try"
    /\ IF video = "None"
       THEN \* AttributeError: 'NoneType' object has no attribute 'open'
            /\ capPc' = "dead"
            /\ UNCHANGED <<video, consecutive_failures>>
       ELSE \E ok \in BOOLEAN :
            IF ok
            THEN /\ video' = "open"
                 /\ consecutive_failures' = 0
                 /\ capPc' = "try"
            ELSE /\ video' = "closed"
                 /\ capPc' = "top"
                 /\ UNCHANGED consecutive_failures
    /\ UNCHANGED <<stopped, stale, wdPc, stopPc, frames, wdReleases, releasePending,
                   stopRaised>>

\* L193: `if not self.video.isOpened()` inside the try block
CapTry ==
    /\ UNCHANGED notCamVars
    /\ capPc = "try"
    /\ capPc' = IF video = "open" THEN "read" ELSE "top"
    /\ UNCHANGED <<video, stopped, stale, wdPc, stopPc, consecutive_failures, frames,
                   wdReleases, releasePending, stopRaised>>

\* L198-216: self.video.read() returns; failure counting or frame publication.
\* A read on a released or cleared handle fails or raises (caught at L276).
CapRead ==
    /\ UNCHANGED notCamVars
    /\ capPc = "read"
    /\ capPc' = "top"
    /\ \E success \in BOOLEAN :
        /\ success => video = "open"
        /\ IF success
           THEN /\ consecutive_failures' = 0
                /\ frames' = Min(frames + 1, MaxFrames)
                /\ UNCHANGED video
           ELSE IF video = "None"
           THEN UNCHANGED <<consecutive_failures, frames, video>>
           ELSE IF consecutive_failures + 1 > FAILURE_THRESHOLD
           THEN /\ video' = "closed"
                /\ consecutive_failures' = 0
                /\ UNCHANGED frames
           ELSE /\ consecutive_failures' = consecutive_failures + 1
                /\ UNCHANGED <<frames, video>>
    /\ UNCHANGED <<stopped, stale, wdPc, stopPc, wdReleases, releasePending, stopRaised>>

\* More than 5 s pass without a heartbeat: the loop is inside a blocking device
\* call, or its thread has ended.
Tick ==
    /\ UNCHANGED notCamVars
    /\ ~stale
    /\ capPc \in {"read", "open_try", "dead"}
    /\ stale' = TRUE
    /\ UNCHANGED <<video, stopped, capPc, wdPc, stopPc, consecutive_failures, frames,
                   wdReleases, releasePending, stopRaised>>

\* L348: `while not self.stopped:`
WdHead ==
    /\ UNCHANGED notCamVars
    /\ wdPc = "head"
    /\ wdPc' = IF stopped THEN "exit" ELSE "sleep"
    /\ UNCHANGED <<video, stopped, stale, capPc, stopPc, consecutive_failures, frames,
                   wdReleases, releasePending, stopRaised>>

\* L350: `time.time() - self.last_frame_time > 5.0 and self.video is not None`
WdFreezeDetected == stale /\ video # "None"

\* L349-352: sleep, then the staleness test
WdCheck ==
    /\ UNCHANGED notCamVars
    /\ wdPc = "sleep"
    /\ IF WdFreezeDetected
       THEN /\ wdPc' = "release"
            /\ wdReleases' = Min(wdReleases + 1, MaxFrames)
            /\ releasePending' = TRUE
       ELSE /\ wdPc' = "head"
            /\ UNCHANGED <<wdReleases, releasePending>>
    /\ UNCHANGED <<video, stopped, stale, capPc, stopPc, consecutive_failures, frames,
                   stopRaised>>

\* L356: `if self.video: self.video.release()`
WdRelease ==
    /\ UNCHANGED notCamVars
    /\ wdPc = "release"
    /\ video' = IF video = "None" THEN "None" ELSE "closed"
    /\ wdPc' = "clear"
    /\ UNCHANGED <<stopped, stale, capPc, stopPc, consecutive_failures, frames,
                   wdReleases, releasePending, stopRaised>>

\* L359: `self.video = None`
WdClear ==
    /\ UNCHANGED notCamVars
    /\ wdPc = "clear"
    /\ video' = "None"
    /\ wdPc' = "head"
    /\ UNCHANGED <<stopped, stale, capPc, stopPc, consecutive_failures, frames,
                   wdReleases, releasePending, stopRaised>>

\* stop() L363-365: set the flag, join the capture thread for at most 1 s
StopCamera ==
    /\ UNCHANGED notCamVars
    /\ stopPc = "idle"
    /\ stopped' = TRUE
    /\ stopPc' = "release"
    /\ UNCHANGED <<video, stale, capPc, wdPc, consecutive_failures, frames,
                   wdReleases, releasePending, stopRaised>>

\* stop() L366: self.video.release()
StopRelease ==
    /\ UNCHANGED notCamVars
    /\ stopPc = "release"
    /\ stopPc' = "idle"
    /\ IF video = "None"
       THEN stopRaised' = TRUE /\ UNCHANGED video
       ELSE video' = "closed" /\ UNCHANGED stopRaised
    /\ UNCHANGED <<stopped, stale, capPc, wdPc, consecutive_failures, frames,
                   wdReleases, releasePending>>

\* After __init__: the device was opened (or not) by _open_camera, both
\* threads are at the top of their loops.
CamInit ==
    /\ video = "open"
    /\ stopped = FALSE
    /\ stale = FALSE
    /\ capPc = "top"
    /\ wdPc = "head"
    /\ stopPc = "idle"
    /\ consecutive_failures = 0
    /\ frames = 0
    /\ wdReleases = 0
    /\ releasePending = FALSE
    /\ stopRaised = FALSE

CamNext ==
    \/ CapTop \/ CapCheckNone \/ CapCheckOpened \/ OpenCameraInstall \/ OpenCameraTry
    \/ CapTry \/ CapRead \/ Tick
    \/ WdHead \/ WdCheck \/ WdRelease \/ WdClear
    \/ StopCamera \/ StopRelease

\* ------------------------------------------------------------------------
\* VisualServoingAgent: start, stop, _servoing_loop, _hybrid_ml_reach
\* Each action runs one loop thread from one blocking point (a sleep or a
\* join) to the next.
\* ------------------------------------------------------------------------
BASE_START == 23
SHOULDER == 100
ELBOW_START == 140
WRIST_PITCH == 90
WRIST_ROLL == 12
GRIPPER == 155
GRIPPER_OPEN == 170
GRIPPER_CLOSED == 120
required_centered_frames == 3
ALIGN_DEADZONE == 20
MAX_ALIGN_STEP == 15
MAX_BASE_CORRECTION == 30
steps == 20

\* Bound on the loop threads (sessions) created by start().
MaxThreads == 2

\* Bound on the detection reads made by the loop threads.
MaxCycles == 4

\* Bound on the count of consecutive stop() calls kept as history.
MaxStops == 2

\* The reach loop is observed every ReachBatch iterations: the iterations in
\* between run without another thread being scheduled.
ReachBatch == 10

Threads == 1..MaxThreads

\* What `self.camera.last_detection` may hold when a loop thread reads it: the
\* empty list, or the Detection of a centred or of an off-centre bottle.
DetectionReads ==
    {<<>>} \cup { <<StandardDetection(b)>> : b \in { d \in DetBoxes : d.cls = "bottle" } }

\* Raw answers of the alignment model for one error (degrees).
AnfisPredictions == {-40}

\* Raw answers of the reach model: (shoulder, elbow, base correction).
MlpOutputs == { <<75, 190, -40>> }

\* np.clip(x, lo, hi)
Clip(x, lo, hi) == Max(lo, Min(hi, x))

\* A thread object whose run() has started and not returned.
Alive(t) == tpc[t] \notin {"unused", "done"}

\* Positions in which a loop thread does not look at self.running for more
\* than the 1 s that stop() waits: sleep(1.5), sleep(1.0), and the reach,
\* which always ends with the grasp move and sleep(1).
LongDelayPcs == {"init_sleep", "settle", "reach", "grasp_sleep"}

\* `while self.running:` evaluated on leaving a cycle; the loop then sleeps 0.3 s
NextLoopPc == IF running THEN "cycle" ELSE "done"

\* [base, current_shoulder, current_elbow, WRIST_PITCH, WRIST_ROLL, GRIPPER]
LoopPose(base) == <<base, SHOULDER, ELBOW_START, WRIST_PITCH, WRIST_ROLL, GRIPPER>>

\* step = pred_corr * 0.6, clamped to +-15
AnfisStep(pred) == Clip((pred * 6) \div 10, -MAX_ALIGN_STEP, MAX_ALIGN_STEP)

\* The correction steps the inner loop may take for error e
StepChoices(e) ==
    IF use_anfis THEN { AnfisStep(p) : p \in AnfisPredictions }
    ELSE { IF e > 0 THEN 1 ELSE -1 }

\* A plausible slip: one more centred frame is required.
ReachDueLate(cf) == cf >= required_centered_frames + 1

\* `if self.centered_frames >= self.required_centered_frames:`
ReachDue(cf) == cf >= required_centered_frames

\* int(a + (b - a) * s_curve(i / steps)), s_curve(t) = 3t^2 - 2t^3
SCurveAt(a, b, i) ==
    (a * 8000 + (b - a) * (60 * i * i - 2 * i * i * i)) \div 8000

\* start(target_object_name), L166-173
ServoStart(name) ==
    IF running
    THEN UNCHANGED <<armVars, percVars, servoVars>>
    ELSE /\ \E t \in Threads : tpc[t] = "unused"
         /\ LET t == CHOOSE u \in Threads :
                        tpc[u] = "unused" /\ \A v \in Threads : tpc[v] = "unused" => u <= v
                others == { u \in Threads : Alive(u) }
            IN  /\ servo_target' = name
                /\ target_object' = name
                /\ last_detection' = <<>>
                /\ running' = TRUE
                /\ thread' = t
                /\ tpc' = [tpc EXCEPT ![t] = "start"]
                /\ overlap' = IF others = {} THEN overlap ELSE overlap \cup others \cup {t}
                /\ stops' = 0
         /\ UNCHANGED <<last_detection_distance, hybrid_mode_active, tracking_active,
                        last_bbox, tracker_seed, cycle>>
         /\ UNCHANGED armVars
         /\ UNCHANGED <<state, search_dir, centered_frames, use_mlp, use_anfis,
                        current_base, align_error_x, reach, callerPc, cycles, consec,
                        missed, seen, swept, reachCount, cbCount, grasped,
                        stoppedEarly>>

\* start(target_object_name) called by an idle caller
StartServo ==
    /\ UNCHANGED notServoVars
    /\ callerPc = "idle"
    /\ \E name \in Targets \ {"none"} : ServoStart(name)

\* A plausible slip: stop() waits for the thread but forgets to clear the flag.
StopServoKeepsRunning ==
    /\ UNCHANGED notServoVars
    /\ UNCHANGED <<armVars, percVars>>
    /\ callerPc = "idle"
    /\ callerPc' = IF thread # 0 THEN "joining" ELSE "idle"
    /\ stops' = IF thread # 0 THEN stops ELSE Min(stops + 1, MaxStops)
    /\ UNCHANGED <<running, stoppedEarly>>
    /\ UNCHANGED <<thread, state, search_dir, centered_frames, use_mlp, use_anfis,
                   servo_target, tpc, current_base, align_error_x, reach, cycles, consec,
                   missed, seen, swept, reachCount, cbCount, grasped, overlap>>

\* stop() L175-178 up to the wait: `self.running = False`, then
\* `self.thread.join(timeout=1.0)` begins
ServoStop ==
    /\ running' = FALSE
    /\ callerPc' = IF thread # 0 THEN "joining" ELSE "idle"
    /\ stops' = IF thread # 0 THEN stops ELSE Min(stops + 1, MaxStops)
    /\ stoppedEarly' = stoppedEarly \cup
                          { t \in Threads : Alive(t) /\ tpc[t] # "grasp_sleep" }
    /\ UNCHANGED <<thread, state, search_dir, centered_frames, use_mlp, use_anfis,
                   servo_target, tpc, current_base, align_error_x, reach, cycles, consec,
                   missed, seen, swept, reachCount, cbCount, grasped, overlap>>

\* stop() called by an idle caller
StopServo ==
    /\ UNCHANGED notServoVars
    /\ UNCHANGED <<armVars, percVars>>
    /\ callerPc = "idle"
    /\ ServoStop

\* join() returns because the thread has ended
StopJoined ==
    /\ UNCHANGED notServoVars
    /\ UNCHANGED <<armVars, percVars>>
    /\ callerPc = "joining"
    /\ tpc[thread] = "done"
    /\ callerPc' = "idle"
    /\ stops' = Min(stops + 1, MaxStops)
    /\ UNCHANGED <<running, thread, state, search_dir, centered_frames, use_mlp,
                   use_anfis, servo_target, tpc, current_base, align_error_x, reach, cycles,
                   consec, missed, seen, swept, reachCount, cbCount, grasped,
                   stoppedEarly, overlap>>

\* join(timeout=1.0) returns while the thread is still inside a long delay
StopJoinTimeout ==
    /\ UNCHANGED notServoVars
    /\ UNCHANGED <<armVars, percVars>>
    /\ callerPc = "joining"
    /\ tpc[thread] \in LongDelayPcs
    /\ callerPc' = "idle"
    /\ stops' = Min(stops + 1, MaxStops)
    /\ UNCHANGED <<running, thread, state, search_dir, centered_frames, use_mlp,
                   use_anfis, servo_target, tpc, current_base, align_error_x, reach, cycles,
                   consec, missed, seen, swept, reachCount, cbCount, grasped,
                   stoppedEarly, overlap>>

\* _servoing_loop L194: the move to the initial pose, then sleep(1.5)
LoopBegin(t) ==
    /\ UNCHANGED notServoVars
    /\ UNCHANGED percVars
    /\ tpc[t] = "start"
    /\ MoveToBody(LoopPose(BASE_START))
    /\ tpc' = [tpc EXCEPT ![t] = "init_sleep"]
    /\ UNCHANGED <<running, thread, state, search_dir, centered_frames, use_mlp,
                   use_anfis, stops, servo_target, current_base, align_error_x, reach, callerPc,
                   cycles, consec, missed, seen, swept, reachCount, cbCount, grasped,
                   stoppedEarly, overlap>>

\* L197-201: the locals are set and `while self.running:` is tested first
LoopEnter(t) ==
    /\ UNCHANGED notServoVars
    /\ UNCHANGED <<armVars, percVars>>
    /\ tpc[t] = "init_sleep"
    /\ current_base' = [current_base EXCEPT ![t] = BASE_START]
    /\ tpc' = [tpc EXCEPT ![t] = NextLoopPc]
    /\ UNCHANGED <<running, thread, state, search_dir, centered_frames, use_mlp,
                   use_anfis, stops, servo_target, align_error_x, reach, callerPc, cycles, consec,
                   missed, seen, swept, reachCount, cbCount, grasped, stoppedEarly,
                   overlap>>

\* One pass of the inner loop `while abs(error_x) > 20:` for error e: the
\* running test, the correction step and the move, up to sleep(1.0); or the
\* exit to the outer loop's test. (The local error_x is dead outside the inner
\* loop and is kept at 0 there.)
AlignIteration(t, e) ==
    IF Abs(e) > ALIGN_DEADZONE /\ running
    THEN \E step \in StepChoices(e) :
            LET base == Clip(current_base[t] + step, 0, 180) IN
            /\ current_base' = [current_base EXCEPT ![t] = base]
            /\ MoveToBody(LoopPose(base))
            /\ align_error_x' = [align_error_x EXCEPT ![t] = e]
            /\ tpc' = [tpc EXCEPT ![t] = "settle"]
    ELSE /\ tpc' = [tpc EXCEPT ![t] = NextLoopPc]
         /\ align_error_x' = [align_error_x EXCEPT ![t] = 0]
         /\ UNCHANGED <<current_base, armVars>>

\* _hybrid_ml_reach L309-371: the model test, the prediction and its clipping,
\* the move that opens the gripper, up to sleep(0.5)
HybridMlReach(t) ==
    /\ reachCount' = [reachCount EXCEPT ![t] = @ + 1]
    /\ IF ~use_mlp
       THEN /\ running' = FALSE
            /\ tpc' = [tpc EXCEPT ![t] = "done"]
            /\ UNCHANGED <<reach, armVars>>
       ELSE \E out \in MlpOutputs :
            LET shoulder_target == Clip(out[1], 0, 180)
                elbow_target == Clip(out[2], 0, 180)
                base_correction == Clip(out[3], -MAX_BASE_CORRECTION, MAX_BASE_CORRECTION)
                base_target == Clip(current_base[t] + base_correction, 0, 180)
            IN  /\ reach' = [reach EXCEPT ![t] =
                                [current_base |-> current_base[t],
                                 current_shoulder |-> current_angles[2],
                                 current_elbow |-> current_angles[3],
                                 base_target |-> base_target,
                                 shoulder_target |-> shoulder_target,
                                 elbow_target |-> elbow_target,
                                 i |-> 0]]
                /\ MoveToBody(<<current_base[t], current_angles[2], current_angles[3],
                                WRIST_PITCH, WRIST_ROLL, GRIPPER_OPEN>>)
                /\ tpc' = [tpc EXCEPT ![t] = "reach"]
                /\ UNCHANGED running

\* A plausible slip: strict comparisons, so the direction is kept when the
\* base arrives exactly on a limit
SweepBounceStrict(b) == b < 0 \/ b > 180

\* `if current_base <= 0 or current_base >= 180:` after the sweep step
SweepBounce(b) == b <= 0 \/ b >= 180

\* One outer cycle of _servoing_loop after sleep(0.3), L207-274, when the read
\* of `self.camera.last_detection` gives one of `reads`
LoopCycleBody(t, reads) ==
    /\ UNCHANGED notServoVars
    /\ UNCHANGED percVars
    /\ tpc[t] = "cycle"
    /\ \E detections \in reads :
        IF detections = <<>>
        THEN LET swept_base == current_base[t] + search_dir
                 bounce == SweepBounce(swept_base)
                 base == IF bounce THEN Clip(swept_base, 0, 180) ELSE swept_base
             IN  /\ state' = "SEARCHING"
                 /\ search_dir' = IF bounce THEN -search_dir ELSE search_dir
                 /\ current_base' = [current_base EXCEPT ![t] = base]
                 /\ MoveToBody(LoopPose(base))
                 /\ tpc' = [tpc EXCEPT ![t] = NextLoopPc]
                 /\ missed' = [missed EXCEPT ![t] = Min(@ + 1, MaxCycles)]
                 /\ swept' = [swept EXCEPT ![t] = TRUE]
                 /\ consec' = [consec EXCEPT ![t] = 0]
                 /\ UNCHANGED <<running, centered_frames, align_error_x, reach, seen, reachCount>>
        ELSE LET e == detections[1].error_x
                 cf == IF Abs(e) < ALIGN_DEADZONE THEN centered_frames + 1 ELSE 0
             IN  /\ centered_frames' = cf
                 /\ consec' = [consec EXCEPT ![t] = IF Abs(e) < ALIGN_DEADZONE THEN @ + 1 ELSE 0]
                 /\ missed' = [missed EXCEPT ![t] = 0]
                 /\ swept' = [swept EXCEPT ![t] = FALSE]
                 /\ seen' = [seen EXCEPT ![t] = TRUE]
                 /\ UNCHANGED search_dir
                 /\ IF ReachDue(cf)
                    THEN /\ HybridMlReach(t)
                         /\ UNCHANGED <<state, current_base, align_error_x>>
                    ELSE /\ state' = "ALIGNING"
                         /\ AlignIteration(t, e)
                         /\ UNCHANGED <<running, reach, reachCount>>
    /\ UNCHANGED <<thread, use_mlp, use_anfis, stops, servo_target, callerPc, cbCount, grasped,
                   stoppedEarly, overlap>>

\* One outer cycle, counted against the bound on detection reads
LoopCycle(t) ==
    /\ cycles < MaxCycles
    /\ cycles' = cycles + 1
    /\ LoopCycleBody(t, DetectionReads)

\* L277-287: after sleep(1.0) the inner loop reads the detection again and gets
\* one of `reads`
AlignReadBody(t, reads) ==
    /\ UNCHANGED notServoVars
    /\ UNCHANGED percVars
    /\ tpc[t] = "settle"
    /\ \E detections \in reads :
        IF detections = <<>>
        THEN /\ tpc' = [tpc EXCEPT ![t] = NextLoopPc]
             /\ align_error_x' = [align_error_x EXCEPT ![t] = 0]
             /\ UNCHANGED <<current_base, armVars>>
        ELSE AlignIteration(t, detections[1].error_x)
    /\ UNCHANGED <<running, thread, state, search_dir, centered_frames, use_mlp,
                   use_anfis, stops, servo_target, reach, callerPc, consec, missed, seen,
                   swept, reachCount, cbCount, grasped, stoppedEarly, overlap>>

\* One read of the inner loop, counted against the bound on detection reads
AlignRead(t) ==
    /\ cycles < MaxCycles
    /\ cycles' = cycles + 1
    /\ AlignReadBody(t, DetectionReads)

\* A bottle whose centre is 20 px off the image centre: |error_x| sits on the
\* edge of the deadzone.
EdgeBox == [cls |-> "bottle", conf |-> 90, xyxy |-> <<580, 300, 740, 500>>]

\* Detection streams in which the target is never centred: nothing in view, a
\* bottle that stays off-centre, or one that stays on the deadzone edge.
UncentredReads ==
    {<<>>} \cup { <<StandardDetection(b)>> :
                     b \in { d \in DetBoxes : d.cls = "bottle" /\ d.conf = 90 }
                              \cup {EdgeBox} }

\* The same cycle and inner-loop read, not counted: the loop thread of a session
\* whose target is never centred
UncentredCycle(t) == UNCHANGED cycles /\ LoopCycleBody(t, UncentredReads)

UncentredAlignRead(t) == UNCHANGED cycles /\ AlignReadBody(t, UncentredReads)

\* _hybrid_ml_reach L375-412: a batch of iterations of
\* `for i in range(steps + 1)` ending with the move of iteration `last`, or,
\* once the loop is over or was left by `if not self.running: break`, the move
\* that closes the gripper
ReachStep(t) ==
    /\ UNCHANGED notServoVars
    /\ UNCHANGED percVars
    /\ tpc[t] = "reach"
    /\ LET r == reach[t] IN
       IF r.i <= steps /\ running
       THEN LET last == Min(r.i + ReachBatch - 1, steps) IN
            /\ MoveToBody(<<SCurveAt(r.current_base, r.base_target, last),
                            SCurveAt(r.current_shoulder, r.shoulder_target, last),
                            SCurveAt(r.current_elbow, r.elbow_target, last),
                            WRIST_PITCH, WRIST_ROLL, GRIPPER_OPEN>>)
            /\ reach' = [reach EXCEPT ![t].i = last + 1]
            /\ UNCHANGED <<tpc, grasped>>
       ELSE /\ MoveToBody(<<r.base_target, r.shoulder_target, r.elbow_target,
                            WRIST_PITCH, WRIST_ROLL, GRIPPER_CLOSED>>)
            /\ tpc' = [tpc EXCEPT ![t] = "grasp_sleep"]
            /\ grasped' = grasped \cup {t}
            /\ UNCHANGED reach
    /\ UNCHANGED <<running, thread, state, search_dir, centered_frames, use_mlp,
                   use_anfis, stops, servo_target, current_base, align_error_x, callerPc, cycles,
                   consec, missed, seen, swept, reachCount, cbCount, stoppedEarly,
                   overlap>>

\* _hybrid_ml_reach L414-429: after sleep(1), `self.running = False` and the
\* on_grab_complete callback
ReachFinish(t) ==
    /\ UNCHANGED notServoVars
    /\ UNCHANGED <<armVars, percVars>>
    /\ tpc[t] = "grasp_sleep"
    /\ running' = FALSE
    /\ cbCount' = [cbCount EXCEPT ![t] = @ + 1]
    /\ tpc' = [tpc EXCEPT ![t] = "done"]
    /\ UNCHANGED <<thread, state, search_dir, centered_frames, use_mlp, use_anfis, stops,
                   servo_target, current_base, align_error_x, reach, callerPc, cycles,
                   consec, missed, seen, swept, reachCount, grasped, stoppedEarly,
                   overlap>>

\* After __init__: no thread, the model files loaded or missing
ServoInit ==
    /\ running = FALSE
    /\ thread = 0
    /\ state = "SEARCHING"
    /\ search_dir = 1
    /\ centered_frames = 0
    /\ use_mlp \in BOOLEAN
    /\ use_anfis \in BOOLEAN
    /\ servo_target = "none"
    /\ tpc = [t \in Threads |-> "unused"]
    /\ current_base = [t \in Threads |-> BASE_START]
    /\ align_error_x = [t \in Threads |-> 0]
    /\ reach = [t \in Threads |->
                  [current_base |-> 0, current_shoulder |-> 0, current_elbow |-> 0,
                   base_target |-> 0, shoulder_target |-> 0, elbow_target |-> 0,
                   i |-> 0]]
    /\ callerPc = "idle"
    /\ cycles = 0
    /\ consec = [t \in Threads |-> 0]
    /\ missed = [t \in Threads |-> 0]
    /\ seen = [t \in Threads |-> FALSE]
    /\ swept = [t \in Threads |-> FALSE]
    /\ reachCount = [t \in Threads |-> 0]
    /\ cbCount = [t \in Threads |-> 0]
    /\ grasped = {}
    /\ stoppedEarly = {}
    /\ overlap = {}
    /\ stops = 0

ServoNext ==
    \/ StartServo \/ StopServo \/ StopJoined \/ StopJoinTimeout
    \/ \E t \in Threads :
          LoopBegin(t) \/ LoopEnter(t) \/ LoopCycle(t) \/ AlignRead(t)
              \/ ReachStep(t) \/ ReachFinish(t)

\* A session that is started and never stopped, with a target that is never
\* centred; the steps of its loop thread
UncentredLoopStep ==
    \E t \in Threads :
        LoopBegin(t) \/ LoopEnter(t) \/ UncentredCycle(t) \/ UncentredAlignRead(t)

UncentredNext == StartServo \/ UncentredLoopStep

\* ------------------------------------------------------------------------
\* ContinuousGrabController: start_grab, stop, _continuous_grab_workflow, and
\* visual_ik_solver.check_reachability / get_wrist_angles
\* Distances are in 1/100 cm.
\* ------------------------------------------------------------------------
xy_tolerance == 20
grab_distance_C == 200
max_iterations == 100
required_centered_grab == 5
SAFETY_OFFSET_C == 200
MIN_WRIST_TARGET_C == 500
SHOULDER_LENGTH_C == 1500
ELBOW_LENGTH_C == 1300
OBJECT_HEIGHT_C == 500
LIFT_DEGREES == 15

\* Bound on the detection reads of one approach phase.
MaxReadings == 4

\* Bound on the workflow threads started by start_grab.
MaxGrabSessions == 1

\* distance_cm of the Detections read during the approach; -100 is the -1.0 of
\* an object of unknown width.
DistanceInputs == {3200, 2500, 1800, 1200, 600, 300, 200, -100}

\* What `self.camera.last_detection` may hold when the workflow reads it.
GrabReads ==
    {<<>>}
    \cup { <<[error_x |-> 0, error_y |-> 0, distance_cm |-> d]>> : d \in DistanceInputs }
    \cup { <<[error_x |-> 460, error_y |-> 60, distance_cm |-> 2500]>> }

\* check_reachability(object_distance_cm, 5.0): "ok" or the kind of refusal
CheckReachability(d) ==
    LET wrist_target_distance == d - SAFETY_OFFSET_C
        hyp2 == wrist_target_distance * wrist_target_distance
                    + OBJECT_HEIGHT_C * OBJECT_HEIGHT_C
        max_reach == SHOULDER_LENGTH_C + ELBOW_LENGTH_C
        min_hyp == Abs(SHOULDER_LENGTH_C - ELBOW_LENGTH_C)
    IN  IF wrist_target_distance < MIN_WRIST_TARGET_C THEN "Object too close"
        ELSE IF hyp2 > max_reach * max_reach THEN "Object out of reach"
        ELSE IF hyp2 < min_hyp * min_hyp THEN "Object too close to body"
        ELSE "Reachable"

\* get_wrist_angles(d, 5.0) as move_to receives it (int of each angle): the
\* law-of-cosines solution evaluated at the reachable readings of
\* DistanceInputs; <<>> stands for None.
GetWristAngles(d) ==
    IF CheckReachability(d) # "Reachable" THEN <<>>
    ELSE CASE d = 2500 -> <<42, 114>>
           [] d = 1800 -> <<65, 73>>
           [] d = 1200 -> <<83, 46>>
           [] OTHER -> <<>>

\* base_correction = error_x * gain_x (0.03), limited to +-max_base_step (2.0)
BaseCorrection(e) == Clip((e * 3) \div 100, -2, 2)

\* A plausible slip: _fail marks the state and forgets to store the reason.
GrabEndNoReason(st, err) ==
    /\ grab_state' = st
    /\ UNCHANGED error_message
    /\ grab_running' = FALSE
    /\ target_object' = "none"
    /\ last_detection' = <<>>
    /\ grabPc' = "done"
    /\ UNCHANGED <<last_detection_distance, hybrid_mode_active, tracking_active,
                   last_bbox, tracker_seed, cycle>>

\* _fail(reason) or the normal end, followed by the `finally:` block
GrabEnd(st, err) ==
    /\ grab_state' = st
    /\ error_message' = err
    /\ grab_running' = FALSE
    /\ target_object' = "none"
    /\ last_detection' = <<>>
    /\ grabPc' = "done"
    /\ UNCHANGED <<last_detection_distance, hybrid_mode_active, tracking_active,
                   last_bbox, tracker_seed, cycle>>

\* start_grab L82-92, past the `if self.running` check: a new workflow thread
StartGrabSession(name) ==
    /\ grabPc \in {"none", "done"}
    /\ grabSessions' = grabSessions + 1
    /\ grab_target' = name
    /\ grab_state' = "idle"
    /\ grab_running' = TRUE
    /\ error_message' = "none"
    /\ grabPc' = "begin"
    /\ readings' = <<>>
    /\ grabStopped' = FALSE
    /\ UNCHANGED <<grab_centered, iteration, grab_angles, grabCallerPc>>

\* start_grab(target_object_name); one workflow thread at a time is modelled
StartGrab ==
    /\ UNCHANGED notGrabVars
    /\ UNCHANGED <<armVars, percVars>>
    /\ grabCallerPc = "idle"
    /\ \E name \in Targets \ {"none"} :
        IF grab_running
        THEN UNCHANGED grabVars
        ELSE /\ grabSessions < MaxGrabSessions
             /\ StartGrabSession(name)

\* Bound on the readings of the session that came before a repeated one.
EarlierReadings == 1

\* start_grab called again on the controller whose last session reached
\* COMPLETE: the arm is as that session left it, gripper closed on the object
StartGrabAgain ==
    /\ UNCHANGED notGrabVars
    /\ UNCHANGED <<armVars, percVars>>
    /\ grabCallerPc = "idle"
    /\ ~grab_running
    /\ grab_state = "complete"
    /\ grabSessions = MaxGrabSessions
    /\ Len(readings) <= EarlierReadings /\ ~grabStopped
    /\ StartGrabSession(grab_target)

\* stop(): `self.running = False`, then join(timeout=2.0)
StopGrab ==
    /\ UNCHANGED notGrabVars
    /\ UNCHANGED <<armVars, percVars>>
    /\ grabCallerPc = "idle"
    /\ grab_running' = FALSE
    /\ grabStopped' = (grabStopped \/ grabPc \notin {"none", "done"})
    /\ IF grabPc = "none"
       THEN grab_state' = "idle" /\ UNCHANGED grabCallerPc
       ELSE grabCallerPc' = "joining" /\ UNCHANGED grab_state
    /\ UNCHANGED <<grab_target, error_message, grabPc, grab_centered, iteration,
                   grab_angles, readings, grabSessions>>

\* stop() after the join: `self.state = GrabState.IDLE`
StopGrabReturn ==
    /\ UNCHANGED notGrabVars
    /\ UNCHANGED <<armVars, percVars>>
    /\ grabCallerPc = "joining"
    /\ grabPc = "done"
    /\ grab_state' = "idle"
    /\ grabCallerPc' = "idle"
    /\ UNCHANGED <<grab_running, grab_target, error_message, grabPc, grab_centered,
                   iteration, grab_angles, readings, grabStopped, grabSessions>>

\* L126-143: set the camera target, CENTERING, open the gripper, sleep(0.5)
GrabBegin ==
    /\ UNCHANGED notGrabVars
    /\ grabPc = "begin"
    /\ target_object' = grab_target
    /\ last_detection' = <<>>
    /\ UNCHANGED <<last_detection_distance, hybrid_mode_active, tracking_active,
                   last_bbox, tracker_seed, cycle>>
    /\ grab_state' = "centering"
    /\ MoveToBody([current_angles EXCEPT ![6] = GRIPPER_OPEN])
    /\ grab_centered' = 0
    /\ grabPc' = "centering"
    /\ UNCHANGED <<grab_running, grab_target, error_message, iteration, grab_angles,
                   grabCallerPc, readings, grabStopped, grabSessions>>

\* One pass of the centering loop L151-178, and on its exit L180-192
CenterStep ==
    /\ UNCHANGED notGrabVars
    /\ UNCHANGED armVars
    /\ grabPc = "centering"
    /\ IF ~grab_running
       THEN \* both loops are skipped: APPROACHING, then L287-289
            /\ GrabEnd("failed", "Max iterations reached without grabbing")
            /\ UNCHANGED <<grab_centered, iteration>>
       ELSE \E timed_out \in BOOLEAN, detections \in GrabReads :
            IF timed_out
            THEN /\ GrabEnd("failed", "Centering timeout")
                 /\ UNCHANGED <<grab_centered, iteration>>
            ELSE IF detections = <<>>
            THEN /\ grab_centered' = 0
                 /\ UNCHANGED <<grab_state, error_message, grab_running, grabPc,
                                iteration, percVars>>
            ELSE LET det == detections[1]
                     is_centered == Abs(det.error_x) < xy_tolerance
                                        /\ Abs(det.error_y) < xy_tolerance
                 IN  IF is_centered /\ grab_centered + 1 >= required_centered_grab
                     THEN /\ grab_centered' = grab_centered + 1
                          /\ grab_state' = "approaching"
                          /\ iteration' = 0
                          /\ grabPc' = "approach"
                          /\ UNCHANGED <<error_message, grab_running, percVars>>
                     ELSE /\ grab_centered' = IF is_centered THEN grab_centered + 1 ELSE 0
                          /\ UNCHANGED <<grab_state, error_message, grab_running, grabPc,
                                         iteration, percVars>>
    /\ UNCHANGED <<grab_target, grab_angles, grabCallerPc, readings, grabStopped,
                   grabSessions>>

\* One pass of the approach loop L195-285; on a reading within grab_distance,
\* also L291-301: GRABBING, the move that closes the gripper, sleep(0.8)
ApproachStep ==
    /\ UNCHANGED notGrabVars
    /\ grabPc = "approach"
    /\ Len(readings) < MaxReadings
    /\ IF ~(grab_running /\ iteration < max_iterations)
       THEN /\ GrabEnd("failed", "Max iterations reached without grabbing")
            /\ UNCHANGED <<armVars, iteration, grab_angles, readings>>
       ELSE \E timed_out \in BOOLEAN, detections \in GrabReads :
            IF timed_out
            THEN /\ GrabEnd("failed", "Approach timeout")
                 /\ UNCHANGED <<armVars, iteration, grab_angles, readings>>
            ELSE IF detections = <<>>
            THEN /\ iteration' = iteration + 1
                 /\ readings' = Append(readings, [found |-> FALSE, distance_cm |-> 0])
                 /\ UNCHANGED <<armVars, percVars, grab_state, error_message,
                                grab_running, grabPc, grab_angles>>
            ELSE LET det == detections[1]
                     d == det.distance_cm
                     angles == GetWristAngles(d)
                 IN
                 /\ readings' = Append(readings, [found |-> TRUE, distance_cm |-> d])
                 /\ IF d <= 0
                    THEN /\ iteration' = iteration + 1
                         /\ UNCHANGED <<armVars, percVars, grab_state, error_message,
                                        grab_running, grabPc, grab_angles>>
                    ELSE IF d <= grab_distance_C
                    THEN LET closed == [current_angles EXCEPT ![6] = GRIPPER_CLOSED] IN
                         /\ grab_state' = "grabbing"
                         /\ grab_angles' = closed
                         /\ MoveToBody(closed)
                         /\ grabPc' = "lifting"
                         /\ UNCHANGED <<percVars, error_message, grab_running, iteration>>
                    ELSE IF CheckReachability(d) # "Reachable"
                    THEN /\ GrabEnd("failed", CheckReachability(d))
                         /\ UNCHANGED <<armVars, iteration, grab_angles>>
                    ELSE IF angles = <<>>
                    THEN /\ GrabEnd("failed", "IK failed")
                         /\ UNCHANGED <<armVars, iteration, grab_angles>>
                    ELSE LET new_angles ==
                                 [current_angles EXCEPT
                                     ![1] = Clip(@ + BaseCorrection(det.error_x), 0, 180),
                                     ![2] = angles[1],
                                     ![3] = angles[2]]
                         IN  /\ MoveToBody(new_angles)
                             /\ IF ~simulation_mode /\ link = "down"
                                THEN /\ GrabEnd("failed", "Robot movement failed")
                                     /\ UNCHANGED <<iteration, grab_angles>>
                                ELSE /\ iteration' = iteration + 1
                                     /\ UNCHANGED <<percVars, grab_state, error_message,
                                                    grab_running, grabPc, grab_angles>>
    /\ UNCHANGED <<grab_target, grab_centered, grabCallerPc, grabStopped,
                   grabSessions>>

\* L303-315: LIFTING, the shoulder raised by 15 degrees, sleep(0.5)
GrabLift ==
    /\ UNCHANGED notGrabVars
    /\ UNCHANGED percVars
    /\ grabPc = "lifting"
    /\ grab_state' = "lifting"
    /\ LET lifted == [grab_angles EXCEPT ![2] = Min(180, @ + LIFT_DEGREES)] IN
       /\ grab_angles' = lifted
       /\ MoveToBody(lifted)
    /\ grabPc' = "finish"
    /\ UNCHANGED <<grab_running, grab_target, error_message, grab_centered, iteration,
                   grabCallerPc, readings, grabStopped, grabSessions>>

\* L317-332: COMPLETE, then the `finally:` block
GrabFinish ==
    /\ UNCHANGED notGrabVars
    /\ UNCHANGED armVars
    /\ grabPc = "finish"
    /\ GrabEnd("complete", error_message)
    /\ UNCHANGED <<grab_target, grab_centered, iteration, grab_angles, grabCallerPc,
                   readings, grabStopped, grabSessions>>

GrabInit ==
    /\ grab_state = "idle"
    /\ grab_running = FALSE
    /\ grab_target = "none"
    /\ error_message = "none"
    /\ grabPc = "none"
    /\ grab_centered = 0
    /\ iteration = 0
    /\ grab_angles = NeutralPose
    /\ grabCallerPc = "idle"
    /\ readings = <<>>
    /\ grabStopped = FALSE
    /\ grabSessions = 0

\* The serial link may fail or come back while a grab session runs.
GrabNext ==
    \/ StartGrab \/ StopGrab \/ StopGrabReturn
    \/ GrabBegin \/ CenterStep \/ ApproachStep \/ GrabLift \/ GrabFinish
    \/ LinkChange

\* ------------------------------------------------------------------------
\* VideoCamera: the frame handoff from _capture_loop to _inference_loop
\* Frames are numbered in the order the capture loop reads them.
\* ------------------------------------------------------------------------
\* Bound on the frames the capture loop reads.
MaxFrameNo == 6

\* Bound on the detection runs counted.
MaxDetections == 3

\* _capture_loop L198-211: a frame is read and kept as `image`
HCapRead ==
    /\ UNCHANGED notHandVars
    /\ hcapPc = "read"
    /\ image < MaxFrameNo
    /\ image' = image + 1
    /\ hcapPc' = "acquire"
    /\ UNCHANGED <<inference_lock, latest_frame_for_inference, frame_to_process, infPc,
                   newest_at_copy, detections_run>>

\* L214: `with self.inference_lock:` entered by the capture loop
HCapAcquire ==
    /\ UNCHANGED notHandVars
    /\ hcapPc = "acquire"
    /\ inference_lock = "free"
    /\ inference_lock' = "capture"
    /\ hcapPc' = "store"
    /\ UNCHANGED <<latest_frame_for_inference, image, frame_to_process, infPc,
                   newest_at_copy, detections_run>>

\* L215: `self.latest_frame_for_inference = image.copy()`, then the lock is released
HCapStore ==
    /\ UNCHANGED notHandVars
    /\ hcapPc = "store"
    /\ latest_frame_for_inference' = image
    /\ inference_lock' = "free"
    /\ hcapPc' = "read"
    /\ UNCHANGED <<image, frame_to_process, infPc, newest_at_copy, detections_run>>

\* _inference_loop L138-139: frame_to_process = None, then the lock is taken
HInfAcquire ==
    /\ UNCHANGED notHandVars
    /\ infPc = "top"
    /\ inference_lock = "free"
    /\ inference_lock' = "inference"
    /\ frame_to_process' = 0
    /\ infPc' = "locked"
    /\ UNCHANGED <<latest_frame_for_inference, image, hcapPc, newest_at_copy,
                   detections_run>>

\* A plausible slip: the detection is run inside the `with` block, so the lock
\* is still held when the copy is handed to it.
HInfCopyKeepsLock ==
    /\ UNCHANGED notHandVars
    /\ infPc = "locked"
    /\ frame_to_process' = latest_frame_for_inference
    /\ newest_at_copy' = latest_frame_for_inference
    /\ infPc' = IF latest_frame_for_inference # 0 THEN "detect" ELSE "top"
    /\ inference_lock' = IF latest_frame_for_inference # 0 THEN "inference" ELSE "free"
    /\ UNCHANGED <<latest_frame_for_inference, image, hcapPc, detections_run>>

\* L140-145: the copy of the latest frame if there is one, the lock released;
\* without a frame the loop sleeps and starts again
HInfCopy ==
    /\ UNCHANGED notHandVars
    /\ infPc = "locked"
    /\ frame_to_process' = latest_frame_for_inference
    /\ newest_at_copy' = latest_frame_for_inference
    /\ infPc' = IF latest_frame_for_inference # 0 THEN "detect" ELSE "top"
    /\ inference_lock' = "free"
    /\ UNCHANGED <<latest_frame_for_inference, image, hcapPc, detections_run>>

\* L153-159: find_objects_yolo(frame_to_process) returns, then sleep(0.01)
HInfDetect ==
    /\ UNCHANGED notHandVars
    /\ infPc = "detect"
    /\ detections_run < MaxDetections
    /\ detections_run' = detections_run + 1
    /\ infPc' = "top"
    /\ UNCHANGED <<inference_lock, latest_frame_for_inference, image, frame_to_process,
                   hcapPc, newest_at_copy>>

\* After __init__ L104-105
HandInit ==
    /\ inference_lock = "free"
    /\ latest_frame_for_inference = 0
    /\ image = 0
    /\ frame_to_process = 0
    /\ hcapPc = "read"
    /\ infPc = "top"
    /\ newest_at_copy = 0
    /\ detections_run = 0

HandNext ==
    \/ HCapRead \/ HCapAcquire \/ HCapStore
    \/ HInfAcquire \/ HInfCopy \/ HInfDetect

\* ------------------------------------------------------------------------
\* find_objects_yolo, set_target_object and get_detection_result as concurrent
\* threads: the inference cycle reads the target when it filters and assigns
\* last_detection at its end; the query reads last_detection once per use.
\* ------------------------------------------------------------------------
\* The frames of the interleaved runs: at most one box, or a bottle and a cup.
RaceFrames ==
    { f \in FrameInputs :
         Len(f) <= 1 \/ (f[1].cls = "bottle" /\ f[1].conf = 90 /\ f[2].cls = "cup") }

NoResponse == [status |-> "none", data |-> <<>>, count |-> 0]

\* find_objects_yolo up to the assignment of last_detection: the target is
\* read (L450 / L522), the tracker and the last distance are updated; the
\* `cycle` history belongs to the uninterrupted cycle and is left alone
RInferCompute ==
    /\ UNCHANGED notRaceVars
    /\ rinfPc = "idle"
    /\ \E boxes \in RaceFrames, upd \in TrackerInputs :
          LET o == YoloOutcome(boxes, upd) IN
          /\ hybrid_mode_active' = o.hybrid
          /\ tracking_active' = o.active
          /\ last_bbox' = o.last
          /\ tracker_seed' = o.seed
          /\ last_detection_distance' = o.dist
          /\ pending' = o.published
    /\ computed_for' = target_object
    /\ rinfPc' = "computed"
    /\ UNCHANGED <<target_object, last_detection, cycle, published_for, qPc, qResp>>

\* `self.last_detection = pending` (L506, L511, L584)
RInferPublish ==
    /\ UNCHANGED notRaceVars
    /\ rinfPc = "computed"
    /\ last_detection' = pending
    /\ published_for' = computed_for
    /\ rinfPc' = "idle"
    /\ UNCHANGED <<target_object, last_detection_distance, hybrid_mode_active,
                   tracking_active, last_bbox, tracker_seed, cycle,
                   pending, computed_for, qPc, qResp>>

\* set_target_object(name) / clear_target_object() called by another thread
RSetTargetObject ==
    /\ UNCHANGED notRaceVars
    /\ target_object' \in Targets
    /\ last_detection' = <<>>
    /\ UNCHANGED <<last_detection_distance, hybrid_mode_active, tracking_active,
                   last_bbox, tracker_seed, cycle>>
    /\ UNCHANGED raceVars

\* get_detection_result L225, first read: `global_camera.last_detection and ...`
QueryTruth ==
    /\ UNCHANGED notRaceVars /\ UNCHANGED percVars
    /\ qPc = "idle"
    /\ IF last_detection # <<>>
       THEN qPc' = "len" /\ qResp' = NoResponse
       ELSE qPc' = "idle" /\ qResp' = [NoResponse EXCEPT !.status = "searching"]
    /\ UNCHANGED <<rinfPc, pending, computed_for, published_for>>

\* L225, second read: `len(global_camera.last_detection) > 0`
QueryLen ==
    /\ UNCHANGED notRaceVars /\ UNCHANGED percVars
    /\ qPc = "len"
    /\ IF Len(last_detection) > 0
       THEN qPc' = "data" /\ UNCHANGED qResp
       ELSE qPc' = "idle" /\ qResp' = [NoResponse EXCEPT !.status = "searching"]
    /\ UNCHANGED <<rinfPc, pending, computed_for, published_for>>

\* L228: `"data": global_camera.last_detection`
QueryData ==
    /\ UNCHANGED notRaceVars /\ UNCHANGED percVars
    /\ qPc = "data"
    /\ qResp' = [qResp EXCEPT !.data = last_detection]
    /\ qPc' = "count"
    /\ UNCHANGED <<rinfPc, pending, computed_for, published_for>>

\* L229: `"count": len(global_camera.last_detection)`, then the response
QueryCount ==
    /\ UNCHANGED notRaceVars /\ UNCHANGED percVars
    /\ qPc = "count"
    /\ qResp' = [qResp EXCEPT !.count = Len(last_detection), !.status = "found"]
    /\ qPc' = "idle"
    /\ UNCHANGED <<rinfPc, pending, computed_for, published_for>>

RaceInit ==
    /\ rinfPc = "idle"
    /\ pending = <<>>
    /\ computed_for = "none"
    /\ published_for = "none"
    /\ qPc = "idle"
    /\ qResp = NoResponse

RaceNext ==
    \/ RInferCompute \/ RInferPublish \/ RSetTargetObject
    \/ QueryTruth \/ QueryLen \/ QueryData \/ QueryCount

\* ------------------------------------------------------------------------
\* visual_ik_solver: check_reachability and get_wrist_angles as functions of
\* the object distance, for an object height of 5 cm. Distances are in
\* 1/100 cm, cosines in 1/10000, angles in whole degrees (rounded down).
\* ------------------------------------------------------------------------
\* The distances given to the solver: 15 cm to 45 cm in steps of 0.25 cm.
IkStep == 25
IkMinDistance == 1500
IkMaxDistance == 4500

IkDistances == { IkMinDistance + IkStep * k : k \in 0..((IkMaxDistance - IkMinDistance) \div IkStep) }

\* 10000 * cos(t degrees) for t = 0..180, at index t + 1
CosTable ==
    <<
       10000, 9998, 9994, 9986, 9976, 9962, 9945, 9925, 9903, 9877, 9848, 9816,
       9781, 9744, 9703, 9659, 9613, 9563, 9511, 9455, 9397, 9336, 9272, 9205,
       9135, 9063, 8988, 8910, 8829, 8746, 8660, 8572, 8480, 8387, 8290, 8192,
       8090, 7986, 7880, 7771, 7660, 7547, 7431, 7314, 7193, 7071, 6947, 6820,
       6691, 6561, 6428, 6293, 6157, 6018, 5878, 5736, 5592, 5446, 5299, 5150,
       5000, 4848, 4695, 4540, 4384, 4226, 4067, 3907, 3746, 3584, 3420, 3256,
       3090, 2924, 2756, 2588, 2419, 2250, 2079, 1908, 1736, 1564, 1392, 1219,
       1045, 872, 698, 523, 349, 175, 0, -175, -349, -523, -698, -872,
       -1045, -1219, -1392, -1564, -1736, -1908, -2079, -2250, -2419, -2588, -2756, -2924,
       -3090, -3256, -3420, -3584, -3746, -3907, -4067, -4226, -4384, -4540, -4695, -4848,
       -5000, -5150, -5299, -5446, -5592, -5736, -5878, -6018, -6157, -6293, -6428, -6561,
       -6691, -6820, -6947, -7071, -7193, -7314, -7431, -7547, -7660, -7771, -7880, -7986,
       -8090, -8192, -8290, -8387, -8480, -8572, -8660, -8746, -8829, -8910, -8988, -9063,
       -9135, -9205, -9272, -9336, -9397, -9455, -9511, -9563, -9613, -9659, -9703, -9744,
       -9781, -9816, -9848, -9877, -9903, -9925, -9945, -9962, -9976, -9986, -9994, -9998,
       -10000
    >>

\* math.sqrt, rounded down
ISqrt(n) == CHOOSE r \in 0..(IkMaxDistance + 1000) : r * r <= n /\ (r + 1) * (r + 1) > n

\* math.degrees(math.acos(max(-1.0, min(1.0, x)))), rounded down
AcosDeg(x) ==
    LET c == Max(-10000, Min(10000, x)) IN
    CHOOSE t \in 0..180 : CosTable[t + 1] >= c /\ (t = 180 \/ CosTable[t + 2] < c)

\* get_wrist_angles L107-137 for a reachable distance: the law of cosines
IkAngles(d) ==
    LET wrist_target_reach == d - SAFETY_OFFSET_C
        hyp2 == wrist_target_reach * wrist_target_reach + OBJECT_HEIGHT_C * OBJECT_HEIGHT_C
        hypotenuse == ISqrt(hyp2)
        alpha == AcosDeg((wrist_target_reach * 10000) \div hypotenuse)
        numerator_shoulder == SHOULDER_LENGTH_C * SHOULDER_LENGTH_C + hyp2
                                  - ELBOW_LENGTH_C * ELBOW_LENGTH_C
        denominator_shoulder == 2 * SHOULDER_LENGTH_C * hypotenuse
        phi1 == AcosDeg((numerator_shoulder * 100) \div (denominator_shoulder \div 100))
        numerator_elbow == SHOULDER_LENGTH_C * SHOULDER_LENGTH_C
                               + ELBOW_LENGTH_C * ELBOW_LENGTH_C - hyp2
        denominator_elbow == 2 * SHOULDER_LENGTH_C * ELBOW_LENGTH_C
        phi2 == AcosDeg((numerator_elbow * 100) \div (denominator_elbow \div 100))
    IN  <<alpha + phi1, phi2>>

\* test_inverse_kinematics L72-73: the next distance is taken
IkCall ==
    /\ UNCHANGED notIkVars
    /\ ikPc = "idle"
    /\ ik_distance' \in IkDistances
    /\ ik_reason' = "none"
    /\ ik_angles' = <<>>
    /\ ikPc' = "called"

\* L73-81: check_reachability(distance, 5.0), then get_wrist_angles(distance, 5.0)
\* when it is reachable
IkReturn ==
    /\ UNCHANGED notIkVars
    /\ ikPc = "called"
    /\ ik_reason' = CheckReachability(ik_distance)
    /\ ik_angles' = IF CheckReachability(ik_distance) = "Reachable"
                    THEN IkAngles(ik_distance) ELSE <<>>
    /\ ikPc' = "idle"
    /\ UNCHANGED ik_distance

IkInit ==
    /\ ik_distance = 0
    /\ ik_reason = "none"
    /\ ik_angles = <<>>
    /\ ikPc = "idle"

IkNext == IkCall \/ IkReturn

\* ------------------------------------------------------------------------
\* PickPlaceController (pick_place_controller.py)
\* ------------------------------------------------------------------------
LIFT_SHOULDER == 100
LIFT_ELBOW == 120
PLACE_ELBOW == 140
PARTIAL_OPEN == 135
RETURN_SHOULDER == 120
HOME_POSITION == <<23, 100, 140, 90, 12, 155>>

\* grabbed_position of test_pick_place.py
GrabbedPosition == <<23, 50, 120, 90, 12, 120>>

\* target_base_angle and modifier given to start()
BaseAngleInputs == {0, 180}
ModifierInputs == {"normal", "near", "far"}

PhaseOrder == <<"LIFTING", "ROTATING", "LOWERING", "RELEASING", "RETURNING">>

\* steps= of the _smooth_move of each phase
StepsOf(phase) ==
    CASE phase = "LIFTING" -> 23
      [] phase = "ROTATING" -> 20
      [] phase = "LOWERING" -> 23
      [] OTHER -> 30

\* place_shoulder for the modifier
PlaceShoulder(m) == IF m = "far" THEN 75 ELSE IF m = "near" THEN 105 ELSE 90

\* A plausible slip: `range(steps)`, which never commands the target pose itself
LastStepExclusive(n) == n - 1

\* `for i in range(steps + 1)`: the last i is steps
LastStep(n) == n

\* current_angles of _smooth_move at step i of n: joints that do not change are
\* locked, the others are int(start + (target - start) * s_curve(i / n))
SmoothAt(start, target, i, n) ==
    [j \in 1..NumJoints |->
        IF start[j] = target[j]
        THEN start[j]
        ELSE start[j] + ((target[j] - start[j]) * i * i * (3 * n - 2 * i)) \div (n * n * n)]

\* list(self.robot.current_angles) with the wrist angles force-locked
WristLocked(a) == [a EXCEPT ![4] = 90, ![5] = 12]

\* self.robot.move_to(angles) as the sequence thread sees it: the call returns
\* when the simulated interpolation is over or the packet was handled
PickMoveTo(angles) ==
    /\ IF simulation_mode
       THEN /\ current_angles' = Clamp(angles)
            /\ move_target' = Clamp(angles)
            /\ armRet' = "True"
            /\ io' = [tx |-> 0, reads |-> 0, fault |-> FALSE]
            /\ UNCHANGED <<simulation_mode, ctor_fault, serial_open, link, packet,
                           txCount, armPc, seq_i, seq_target>>
       ELSE MoveToBody(angles)
    /\ pp_failed' = (pp_failed \/ armRet' # "True")

NoAfterStop == [begun |-> FALSE, moved |-> FALSE, released |-> FALSE]

\* The thread writes self.state and current_telemetry["state"]
PickWriteState(st) ==
    /\ pp_state' = st
    /\ telemetry_state' = st
    /\ pp_phases' = Append(pp_phases, st)

\* robot.move_to(grabbed_position) before the controller is started
PickPrepare ==
    /\ UNCHANGED notPickVars
    /\ ppPc = "none" /\ current_angles # GrabbedPosition
    /\ PickMoveTo(GrabbedPosition)
    /\ UNCHANGED <<pp_running, pp_state, telemetry_state, target_base_angle, modifier,
                   ppPc, pp_phase, pp_i, pp_start, pp_target, pp_phases, pp_stopped,
                   pp_after_stop>>

\* start(target_base_angle, modifier); one sequence is followed per behaviour
StartPick ==
    /\ UNCHANGED notPickVars
    /\ UNCHANGED armVars
    /\ ~pp_running
    /\ ppPc = "none"
    /\ \E a \in BaseAngleInputs, m \in ModifierInputs :
        /\ target_base_angle' = a
        /\ modifier' = m
    /\ pp_running' = TRUE
    /\ pp_state' = "STARTING"
    /\ ppPc' = "begin"
    /\ pp_phases' = <<>>
    /\ pp_stopped' = FALSE
    /\ pp_after_stop' = NoAfterStop
    /\ pp_failed' = FALSE
    /\ UNCHANGED <<telemetry_state, pp_phase, pp_i, pp_start, pp_target>>

\* stop()
StopPick ==
    /\ UNCHANGED notPickVars
    /\ UNCHANGED armVars
    /\ pp_running
    /\ pp_running' = FALSE
    /\ pp_state' = "STOPPED"
    /\ telemetry_state' = "STOPPED"
    /\ pp_stopped' = TRUE
    /\ UNCHANGED <<target_base_angle, modifier, ppPc, pp_phase, pp_i, pp_start,
                   pp_target, pp_phases, pp_after_stop, pp_failed>>

\* The thread begins a phase whose first command is a _smooth_move
PickBeginSmooth(phase, start, target) ==
    /\ PickWriteState(phase)
    /\ pp_phase' = phase
    /\ pp_start' = start
    /\ pp_target' = target
    /\ pp_i' = 0
    /\ ppPc' = "smooth"
    /\ pp_after_stop' = [pp_after_stop EXCEPT !.begun = @ \/ pp_stopped]
    /\ UNCHANGED <<pp_running, target_base_angle, modifier, pp_stopped>>

\* PHASE 1: state = "LIFTING" and the poses of the lift
PickLift ==
    /\ UNCHANGED notPickVars
    /\ UNCHANGED armVars
    /\ ppPc = "begin"
    /\ LET cur == WristLocked(current_angles)
       IN  PickBeginSmooth("LIFTING", cur,
                           [cur EXCEPT ![2] = LIFT_SHOULDER, ![3] = LIFT_ELBOW])
    /\ UNCHANGED pp_failed

\* The end of _execute_sequence after the last _smooth_move: COMPLETE, and the
\* finally clause
PickComplete ==
    /\ PickWriteState("COMPLETE")
    /\ pp_running' = FALSE
    /\ ppPc' = "done"

\* One pass of the loop of _smooth_move: the test of self.running, the command
\* and the sleep; or the end of the loop and what follows it without a pause
PickSmoothStep ==
    /\ UNCHANGED notPickVars
    /\ ppPc = "smooth"
    /\ IF pp_running /\ pp_i <= LastStep(StepsOf(pp_phase))
       THEN /\ PickMoveTo(SmoothAt(pp_start, pp_target, pp_i, StepsOf(pp_phase)))
            /\ pp_i' = pp_i + 1
            /\ pp_after_stop' = [pp_after_stop EXCEPT !.moved = @ \/ pp_stopped]
            /\ UNCHANGED <<pp_running, pp_state, telemetry_state, ppPc, pp_phases>>
       ELSE /\ UNCHANGED armVars
            /\ UNCHANGED <<pp_failed, pp_i, pp_after_stop>>
            /\ IF pp_phase = "RETURNING"
               THEN PickComplete
               ELSE /\ ppPc' = "settle"
                    /\ UNCHANGED <<pp_running, pp_state, telemetry_state, pp_phases>>
    /\ UNCHANGED <<target_base_angle, modifier, pp_phase, pp_start, pp_target,
                   pp_stopped>>

\* `if not self.running: return` after the pause that ends a phase
PickCheck ==
    /\ UNCHANGED notPickVars
    /\ UNCHANGED armVars
    /\ ppPc = "settle"
    /\ ppPc' = IF pp_running THEN "enter" ELSE "done"
    /\ pp_running' = pp_running
    /\ UNCHANGED <<pp_state, telemetry_state, target_base_angle, modifier, pp_phase,
                   pp_i, pp_start, pp_target, pp_phases, pp_stopped, pp_after_stop,
                   pp_failed>>

\* PHASE 2: state = "ROTATING" and the poses of the rotation
PickRotate ==
    /\ UNCHANGED notPickVars
    /\ UNCHANGED armVars
    /\ ppPc = "enter" /\ pp_phase = "LIFTING"
    /\ LET cur == WristLocked(current_angles)
       IN  PickBeginSmooth("ROTATING", cur, [cur EXCEPT ![1] = target_base_angle])
    /\ UNCHANGED pp_failed

\* PHASE 3: state = "LOWERING" and the poses of the descent
PickLower ==
    /\ UNCHANGED notPickVars
    /\ UNCHANGED armVars
    /\ ppPc = "enter" /\ pp_phase = "ROTATING"
    /\ LET cur == WristLocked(current_angles)
       IN  PickBeginSmooth("LOWERING", cur,
                           [cur EXCEPT ![2] = PlaceShoulder(modifier), ![3] = PLACE_ELBOW])
    /\ UNCHANGED pp_failed

\* PHASE 4: state = "RELEASING" and the partial opening of the gripper
PickReleasePartial ==
    /\ UNCHANGED notPickVars
    /\ ppPc = "enter" /\ pp_phase = "LOWERING"
    /\ PickWriteState("RELEASING")
    /\ pp_phase' = "RELEASING"
    /\ pp_start' = current_angles
    /\ PickMoveTo([current_angles EXCEPT ![6] = PARTIAL_OPEN])
    /\ ppPc' = "release"
    /\ pp_after_stop' = [begun |-> pp_after_stop.begun \/ pp_stopped,
                         moved |-> pp_after_stop.moved \/ pp_stopped,
                         released |-> pp_after_stop.released \/ pp_stopped]
    /\ UNCHANGED <<pp_running, target_base_angle, modifier, pp_i, pp_target,
                   pp_stopped>>

\* The full opening of the gripper, 0.4 s later
PickReleaseFull ==
    /\ UNCHANGED notPickVars
    /\ ppPc = "release"
    /\ PickMoveTo([pp_start EXCEPT ![6] = GRIPPER_OPEN])
    /\ ppPc' = "settle"
    /\ pp_after_stop' = [pp_after_stop EXCEPT !.moved = @ \/ pp_stopped,
                                              !.released = @ \/ pp_stopped]
    /\ UNCHANGED <<pp_running, pp_state, telemetry_state, target_base_angle, modifier,
                   pp_phase, pp_i, pp_start, pp_target, pp_phases, pp_stopped>>

\* PHASE 5: state = "RETURNING", the safety lift of the shoulder and the poses
\* of the way home
PickReturn ==
    /\ UNCHANGED notPickVars
    /\ ppPc = "enter" /\ pp_phase = "RELEASING"
    /\ LET cur == [current_angles EXCEPT ![2] = RETURN_SHOULDER]
       IN  /\ PickMoveTo(cur)
           /\ PickWriteState("RETURNING")
           /\ pp_phase' = "RETURNING"
           /\ pp_start' = cur
           /\ pp_target' = HOME_POSITION
           /\ pp_i' = 0
           /\ ppPc' = "smooth"
    /\ pp_after_stop' = [pp_after_stop EXCEPT !.begun = @ \/ pp_stopped,
                                              !.moved = @ \/ pp_stopped]
    /\ UNCHANGED <<pp_running, target_base_angle, modifier, pp_stopped>>

\* After PickPlaceController(robot)
PickInit ==
    /\ pp_running = FALSE
    /\ pp_state = "IDLE"
    /\ telemetry_state = "IDLE"
    /\ target_base_angle = 0
    /\ modifier = "none"
    /\ ppPc = "none"
    /\ pp_phase = "None"
    /\ pp_i = 0
    /\ pp_start = <<>>
    /\ pp_target = <<>>
    /\ pp_phases = <<>>
    /\ pp_stopped = FALSE
    /\ pp_after_stop = NoAfterStop
    /\ pp_failed = FALSE

\* The serial link to the controller board is lost while a sequence runs
PickLinkLost == link = "up" /\ ppPc \notin {"none", "done"} /\ LinkChange

PickNext ==
    \/ PickPrepare \/ StartPick \/ StopPick \/ PickLift \/ PickSmoothStep \/ PickCheck
    \/ PickRotate \/ PickLower \/ PickReleasePartial \/ PickReleaseFull \/ PickReturn
    \/ PickLinkLost

\* ------------------------------------------------------------------------
\* VisualGrabController (brain/grab_controller.py): alignment by the servoing
\* agent, then the approach by inverse kinematics, then the lift
\* ------------------------------------------------------------------------
\* Bound on the approach moves of one workflow (max_approach_iterations is 50).
MaxApproachMoves == 2

\* _fail(reason) or COMPLETE, then `finally: self.running = False`. When _fail
\* runs, servoing_agent.running is already False (stop() came before every
\* `return False`), so its L377-378 does nothing.
VgEnd(st) ==
    /\ vg_state' = st
    /\ vg_running' = FALSE
    /\ vgPc' = "done"

\* start_grab(target_object_name) on an idle controller
StartVisualGrab ==
    /\ UNCHANGED notVgVars
    /\ UNCHANGED <<armVars, percVars, servoVars>>
    /\ vgPc = "none" /\ ~vg_running
    /\ \E name \in Targets \ {"none"} : vg_target' = name
    /\ vg_state' = "idle"
    /\ vg_running' = TRUE
    /\ vgPc' = "align"
    /\ UNCHANGED <<vg_iteration, vg_aligned, vg_cmd>>

\* _phase_1_align L180-188: ALIGNING, servoing_agent.start(self.target_object)
VgAlignBegin ==
    /\ UNCHANGED notVgVars
    /\ vgPc = "align"
    /\ vg_state' = "aligning"
    /\ ServoStart(vg_target)
    /\ vgPc' = "aligning"
    /\ UNCHANGED <<vg_running, vg_target, vg_iteration, vg_aligned, vg_cmd>>

\* _phase_1_align L192-205: a pass of the wait loop that ends the wait, by the
\* timeout (L194-196) or by a Detection with is_centered (L200-205); both call
\* servoing_agent.stop(). A pass that finds neither changes nothing.
VgAlignPoll ==
    /\ UNCHANGED notVgVars
    /\ UNCHANGED <<armVars, percVars>>
    /\ vgPc = "aligning" /\ vg_running /\ callerPc = "idle"
    /\ ServoStop
    /\ \E timed_out \in BOOLEAN :
          vgPc' = IF timed_out THEN "stop_timeout" ELSE "stop_centered"
    /\ UNCHANGED <<vg_running, vg_state, vg_target, vg_iteration, vg_aligned, vg_cmd>>

\* servoing_agent.stop() has returned: `return False` and _fail (L197, 142-144),
\* or sleep(0.5) and `return True` (L206-208)
VgAlignReturn ==
    /\ UNCHANGED notVgVars
    /\ UNCHANGED <<armVars, percVars, servoVars>>
    /\ vgPc \in {"stop_timeout", "stop_centered"} /\ callerPc = "idle"
    /\ IF vgPc = "stop_timeout"
       THEN /\ VgEnd("failed")
            /\ UNCHANGED vg_aligned
       ELSE /\ vg_aligned' = current_angles
            /\ vgPc' = "open"
            /\ UNCHANGED <<vg_running, vg_state>>
    /\ UNCHANGED <<vg_target, vg_iteration, vg_cmd>>

\* _phase_2_approach L229-244: APPROACHING and the move that opens the gripper
VgApproachOpen ==
    /\ UNCHANGED notVgVars
    /\ UNCHANGED <<percVars, servoVars>>
    /\ vgPc = "open"
    /\ vg_state' = "approaching"
    /\ LET opened == [current_angles EXCEPT ![6] = GRIPPER_OPEN] IN
       /\ MoveToBody(opened)
       /\ vg_cmd' = opened
    /\ vg_iteration' = 0
    /\ vgPc' = "approach"
    /\ UNCHANGED <<vg_running, vg_target, vg_aligned>>

\* One pass of the approach loop L246-327 that reads a Detection or times out
\* (a pass that reads nothing only sleeps, L254-257)
VgApproachStep ==
    /\ UNCHANGED notVgVars
    /\ UNCHANGED <<percVars, servoVars>>
    /\ vgPc = "approach" /\ vg_running
    /\ vg_iteration < MaxApproachMoves
    /\ \E timed_out \in BOOLEAN, detections \in GrabReads \ {<<>>} :
        IF timed_out
        THEN /\ VgEnd("failed")
             /\ UNCHANGED <<armVars, vg_iteration, vg_cmd>>
        ELSE LET d == detections[1].distance_cm
                 angles == GetWristAngles(d)
             IN  IF d <= 0
                 THEN /\ VgEnd("failed")
                      /\ UNCHANGED <<armVars, vg_iteration, vg_cmd>>
                 ELSE IF d <= grab_distance_C
                 THEN LET closed == [current_angles EXCEPT ![6] = GRIPPER_CLOSED] IN
                      /\ MoveToBody(closed)
                      /\ vg_cmd' = closed
                      /\ vg_state' = "grab_ready"
                      /\ vgPc' = "lift"
                      /\ UNCHANGED <<vg_running, vg_iteration>>
                 ELSE IF CheckReachability(d) # "Reachable" \/ angles = <<>>
                 THEN /\ VgEnd("failed")
                      /\ UNCHANGED <<armVars, vg_iteration, vg_cmd>>
                 ELSE LET new_angles == [current_angles EXCEPT ![2] = angles[1],
                                                               ![3] = angles[2]]
                      IN  /\ MoveToBody(new_angles)
                          /\ vg_cmd' = new_angles
                          /\ IF ~simulation_mode /\ link = "down"
                             THEN /\ VgEnd("failed")
                                  /\ UNCHANGED vg_iteration
                             ELSE /\ vg_iteration' = vg_iteration + 1
                                  /\ UNCHANGED <<vg_running, vg_state, vgPc>>
    /\ UNCHANGED <<vg_target, vg_aligned>>

\* _phase_3_grab L345-362 and L158-169: the lift, then COMPLETE
VgLift ==
    /\ UNCHANGED notVgVars
    /\ UNCHANGED <<percVars, servoVars>>
    /\ vgPc = "lift"
    /\ MoveToBody([current_angles EXCEPT ![2] = Min(180, @ + LIFT_DEGREES)])
    /\ VgEnd("complete")
    /\ UNCHANGED <<vg_target, vg_iteration, vg_aligned, vg_cmd>>

VgInit ==
    /\ vg_running = FALSE
    /\ vg_state = "idle"
    /\ vg_target = "none"
    /\ vgPc = "none"
    /\ vg_iteration = 0
    /\ vg_aligned = <<>>
    /\ vg_cmd = <<>>

\* The serial link to the controller board is lost while a workflow runs
VgLinkLost == link = "up" /\ vgPc \notin {"none", "done"} /\ LinkChange

\* The controller's workflow thread, its call of stop() on the agent, and the
\* agent's loop threads
VgNext ==
    \/ StartVisualGrab \/ VgAlignBegin \/ VgAlignPoll \/ VgAlignReturn
    \/ VgApproachOpen \/ VgApproachStep \/ VgLift
    \/ StopJoined \/ StopJoinTimeout
    \/ \E t \in Threads :
          LoopBegin(t) \/ LoopEnter(t) \/ LoopCycle(t) \/ AlignRead(t)
              \/ ReachStep(t) \/ ReachFinish(t)
    \/ VgLinkLost

\* ------------------------------------------------------------------------
\* Specifications: one per component, the other components standing still
\* ------------------------------------------------------------------------
Init == ArmInit /\ CallInit /\ PercInit /\ CamInit /\ ServoInit /\ GrabInit /\ HandInit /\ RaceInit /\ IkInit
        /\ PickInit /\ VgInit

ArmNext == MoveTo \/ MoveToFinish \/ MoveToSequenced \/ SeqStep \/ SeqDone \/ LinkChange

\* The arm driven through /manual_control only.
ManualNext == ManualControl \/ MoveToFinish \/ LinkChange

\* The servoing agent stands still with both models loaded.
InitArm == Init /\ use_mlp /\ use_anfis

SpecArm == InitArm /\ [][ArmNext]_vars

SpecManual == InitArm /\ [][ManualNext]_vars

\* The arm stands still in hardware mode while the perception is explored.
InitHardware == InitArm /\ simulation_mode = FALSE

SpecPerception == InitHardware /\ [][PercNext]_vars

SpecCamera == InitHardware /\ [][CamNext]_vars

\* The servoing agent drives the arm in hardware mode with the link up.
InitServo == Init /\ simulation_mode = FALSE

SpecServo == InitServo /\ [][ServoNext]_vars

\* The loop thread is a running thread: it is never left waiting for ever.
SpecServoUncentred == InitServo /\ [][UncentredNext]_vars /\ WF_vars(UncentredLoopStep)

SpecGrab == InitHardware /\ [][GrabNext]_vars

\* The grab workflow, with one more session after a session that completed.
GrabAgainNext == GrabNext \/ StartGrabAgain

SpecGrabAgain == InitHardware /\ [][GrabAgainNext]_vars

SpecHandoff == InitHardware /\ [][HandNext]_vars

SpecDetectionRace == InitHardware /\ [][RaceNext]_vars

SpecIk == InitHardware /\ [][IkNext]_vars

\* The pick-and-place controller on a simulated or a real arm.
SpecPickPlace == InitArm /\ [][PickNext]_vars

SpecVisualGrab == InitHardware /\ [][VgNext]_vars

\* ------------------------------------------------------------------------
\* C2: after any sequence of move_to and move_to_sequenced calls, in simulation
\* or hardware mode, every pose held in current_angles and every packet
\* transmitted has all six joints within [0,180], the elbow (index 2) at most
\* 150 and the gripper (index 5) within [120,170].
\* ------------------------------------------------------------------------
PoseSafe(p) ==
    /\ Len(p) = NumJoints
    /\ \A i \in 1..NumJoints : p[i] >= SERVO_MIN /\ p[i] <= SERVO_MAX
    /\ p[3] <= ELBOW_MAX
    /\ p[6] >= GRIPPER_MIN /\ p[6] <= GRIPPER_MAX

C2_PoseAndPacketWithinLimits ==
    /\ PoseSafe(current_angles)
    /\ packet # <<>> => PoseSafe(packet)

\* A sequenced move whose target asked for elbow 180 and gripper 200 has ended
\* and a packet was transmitted in hardware mode.
C2_Witness ==
    /\ armRet = "True" /\ seq_i = -1 /\ armPc = "idle"
    /\ seq_target = <<90, 45, 180, 0, 180, 180>>
    /\ current_angles = <<90, 45, 150, 0, 180, 170>>
    /\ packet # <<>>

\* ------------------------------------------------------------------------
\* C1: in every inference cycle in which the detector returns at least one box
\* matching the target label (any box when no label is set), the coordinator
\* returns a Detection with source=Detector built from the highest-confidence
\* matching box, whether the tracker session was active, inactive or had just
\* failed before that cycle.
\* ------------------------------------------------------------------------
DetectorMatched(c) ==
    \E i \in 1..Len(c.boxes) : c.target = "none" \/ c.boxes[i].cls = c.target

\* box i is a matching box of the highest confidence among the matching ones
IsTopMatch(c, i) ==
    /\ c.target = "none" \/ c.boxes[i].cls = c.target
    /\ \A j \in 1..Len(c.boxes) :
          (c.target = "none" \/ c.boxes[j].cls = c.target)
              => c.boxes[j].conf <= c.boxes[i].conf

C1_DetectorMatchWins ==
    DetectorMatched(cycle) =>
        /\ cycle.published # <<>>
        /\ \A k \in 1..Len(cycle.published) : cycle.published[k].source = "YOLO"
        /\ cycle.hybrid =>
              /\ cycle.result.source = "YOLO"
              /\ Len(cycle.published) = 1
              /\ \E i \in 1..Len(cycle.boxes) :
                    /\ IsTopMatch(cycle, i)
                    /\ cycle.result.bbox = ClampBBox(XYWH(cycle.boxes[i].xyxy))
                    /\ cycle.published[1].bbox = cycle.boxes[i].xyxy
              /\ tracking_active
              /\ last_bbox = cycle.result.bbox

\* A hybrid cycle with an active tracker session, a target set, a lower-
\* confidence matching box listed first and a non-matching box in the frame.
C1_Witness ==
    /\ cycle.hybrid /\ cycle.was_active /\ cycle.upd_ok
    /\ cycle.target = "bottle"
    /\ Len(cycle.boxes) = 2
    /\ cycle.boxes[1].cls = "bottle" /\ cycle.boxes[1].conf = 50
    /\ cycle.boxes[2].cls = "bottle" /\ cycle.boxes[2].conf = 90
    /\ cycle.result.source = "YOLO"

\* ------------------------------------------------------------------------
\* C5: each staleness episode (freshness age above the 5 s threshold while the
\* device handle is held) produces exactly one forced release by the watchdog
\* and exactly one reopen attempt by the capture loop; the watchdog issues no
\* further release until the capture loop has installed a new handle and gone
\* stale again.
\* Stated on states: no second release is issued for the same handle, and a
\* forced release that has not been followed by its reopen attempt still has a
\* running capture loop to make it (unless the camera was stopped).
\* ------------------------------------------------------------------------
C5_NoSecondRelease == wdReleases <= 1

C5_OneReleaseOneReopen ==
    /\ C5_NoSecondRelease
    /\ (releasePending /\ ~stopped) => capPc # "dead"

\* ------------------------------------------------------------------------
\* C6: after a hang the watchdog force-releases the handle and the capture
\* loop reopens and resumes; under every interleaving of the watchdog with the
\* capture loop, including a release that lands while the device is being
\* opened, the capture thread keeps running as long as the camera has not been
\* stopped.
\* ------------------------------------------------------------------------
C6_CaptureThreadKeepsRunning == ~stopped => capPc # "dead"

\* ------------------------------------------------------------------------
\* C3: in a servoing session, once |error_x| has been below the deadzone for
\* required_centered_frames consecutive cycles, the transition to the reach
\* fires exactly once: every loop thread enters the reach routine at most once
\* and never again afterwards, and a session that runs alone on the agent has
\* entered it as soon as its third consecutive centred cycle has run.
\* ------------------------------------------------------------------------
C3_ReachFiresOnce ==
    \A t \in Threads :
        /\ reachCount[t] <= 1
        /\ (consec[t] >= required_centered_frames /\ t \notin overlap)
              => reachCount[t] = 1
        /\ reachCount[t] = 1 => tpc[t] \in {"reach", "grasp_sleep", "done"}

\* A session running alone saw three consecutive centred cycles, entered the
\* reach once and has finished it.
C3_Witness ==
    \E t \in Threads :
        /\ t \notin overlap
        /\ consec[t] = required_centered_frames
        /\ reachCount[t] = 1
        /\ tpc[t] = "done"
        /\ t \in grasped

\* ------------------------------------------------------------------------
\* C4: the reach of a servoing session starts only after 3 consecutive control
\* cycles of that same session each observed a Detection with |error_x| < 20;
\* a cycle with no Detection, a cycle with |error_x| >= 20 and the start of a
\* new session each restart the count from zero.
\* ------------------------------------------------------------------------
C4_ReachOnlyAfterThreeCentredCycles ==
    \A t \in Threads :
        reachCount[t] > 0 => consec[t] >= required_centered_frames

\* ------------------------------------------------------------------------
\* C7: at any time at most one servoing loop thread of the agent is alive,
\* under any interleaving of start() and stop(), including a stop() whose 1 s
\* join timed out followed by start() for a new target.
\* ------------------------------------------------------------------------
C7_AtMostOneLoopThread ==
    Cardinality({ t \in Threads : Alive(t) }) <= 1

\* ------------------------------------------------------------------------
\* C8: on_grab_complete is invoked exactly once for each servoing session that
\* completes the grasp, and never for a session that was stopped before it
\* closed the gripper or that failed.
\* ------------------------------------------------------------------------
C8_CallbackOnlyForCompletedGrasp ==
    \A t \in Threads :
        /\ cbCount[t] <= 1
        /\ (tpc[t] = "done" /\ t \in grasped /\ t \notin stoppedEarly) => cbCount[t] = 1
        /\ t \notin grasped => cbCount[t] = 0
        /\ t \in stoppedEarly => cbCount[t] = 0

\* ------------------------------------------------------------------------
\* C9: when a target that was being aligned is not found for up to 3
\* consecutive cycles, the controller does not re-enter SEARCHING and commands
\* no sweep step.
\* ------------------------------------------------------------------------
C9_RecentlyLostNoSweep ==
    \A t \in Threads :
        (seen[t] /\ missed[t] >= 1 /\ missed[t] <= 3 /\ t \notin overlap)
            => (~swept[t] /\ state # "SEARCHING")

\* ------------------------------------------------------------------------
\* C10: during the approach, with a blind-zone threshold of 5 cm, the
\* controller keeps approaching on every distance reading above the threshold
\* (as in 25, 18, 12, 6) and goes to GRASPING exactly at the first reading at
\* or below it (as in 3), or earlier only if Detection is lost while the last
\* known distance is below the near-threshold of 15 cm.
\* Stated on a session that was neither stopped nor timed out, whose last read
\* is the one the approach loop has just acted on.
\* ------------------------------------------------------------------------
HasDistance(r) == r.found /\ r.distance_cm > 0

\* Detection is lost at read k while the last distance known before it was
\* below the near-threshold
LostNear(k) ==
    /\ ~readings[k].found
    /\ \E j \in 1..(k - 1) :
          /\ HasDistance(readings[j])
          /\ readings[j].distance_cm < NEAR_THRESHOLD_C
          /\ \A m \in (j + 1)..(k - 1) : ~HasDistance(readings[m])

Grasping == grab_state \in {"grabbing", "lifting", "complete"}

C10_GraspAtFirstReadingInBlindZone ==
    (/\ readings # <<>>
     /\ ~grabStopped
     /\ error_message # "Approach timeout")
        => LET n == Len(readings)
               last == readings[n]
           IN  /\ (HasDistance(last) /\ last.distance_cm > 500)
                     => grab_state = "approaching"
               /\ (HasDistance(last) /\ last.distance_cm <= 500) => Grasping
               /\ Grasping => (HasDistance(last) /\ last.distance_cm <= 500) \/ LostNear(n)

\* ------------------------------------------------------------------------
\* Calls of the RobotArm seen from the caller
\* ------------------------------------------------------------------------
\* The latest call was a plain move_to and it has returned.
MoveToReturned == call.op = "move_to" /\ armPc = "idle" /\ seq_i < 0

\* The latest call was move_to_sequenced and it has returned.
SequencedReturned == call.op = "move_to_sequenced" /\ armPc = "idle" /\ seq_i < 0

ScenarioC == <<200, -5, 90, 90, 90, 90>>

C12_SequencedEndsAtClampedTarget ==
    SequencedReturned =>
        /\ armRet = "True" => current_angles = Clamp(call.arg)
        /\ armRet = "False" => (Len(call.arg) # NumJoints \/ io.fault)
        /\ armRet \in {"True", "False"}

\* A sequenced move towards a target that needs every clamp (base below 0,
\* shoulder above 180, elbow above 150, gripper below 120) has returned True.
C12_Witness ==
    /\ SequencedReturned /\ armRet = "True"
    /\ call.arg = <<-10, 181, 151, 90, 0, 119>>
    /\ current_angles = <<0, 180, 150, 90, 0, 120>>

\* ------------------------------------------------------------------------
\* Requests to /manual_control seen from the operator
\* ------------------------------------------------------------------------
\* The request has been answered.
ManualAnswered == manual.status \in {"success", "400", "500"}

\* A JSON number (not a string, not a boolean)
IsJsonNumber(x) == x.kind \in {"int", "float"}

\* A manual pose that is not six numbers each within [0,180]
Malformed(payload) ==
    \/ Len(payload) # NumJoints
    \/ \E i \in 1..Len(payload) :
          ~IsJsonNumber(payload[i]) \/ payload[i].v < 0 \/ payload[i].v > 180

\* ------------------------------------------------------------------------
\* C17: a malformed manual pose (not exactly six values, a non-numeric value,
\* or any value outside [0,180]) is rejected with an error before any packet is
\* written and leaves the arm's current pose unchanged: move_to is not called
\* for it.
\* ------------------------------------------------------------------------
C17_MalformedManualPoseRejected ==
    (manual.status # "none" /\ Malformed(manual.payload)) =>
        (manual.status \in {"400", "500"} /\ ~manual.moved)

\* The part of C17 about move_to itself: a pose whose length is not 6 returns
\* False, writes nothing and starts no interpolation.
C17_MoveToRejectsWrongLength ==
    (MoveToReturned /\ Len(call.arg) # NumJoints) =>
        (armRet = "False" /\ io.tx = 0 /\ io.reads = 0)

\* ------------------------------------------------------------------------
\* C18: for every manual pose of six numbers each within [0,180], the
\* manual-control operation succeeds and the angles it reports back (the arm's
\* resulting pose) equal the requested angles.
\* ------------------------------------------------------------------------
C18_ManualReportsRequestedAngles ==
    (ManualAnswered /\ ~Malformed(manual.payload)) =>
        /\ manual.status = "success"
        /\ manual.angles = [i \in 1..Len(manual.payload) |-> manual.payload[i].v]

\* ------------------------------------------------------------------------
\* C19: on a serial connection failure, at construction or on a later move_to
\* after a disconnect, the interface does not crash and downgrades to simulated
\* mode, in which subsequent move_to calls succeed. Stated on states: once the
\* constructor or a move_to has met a serial fault, the arm is in simulation
\* mode.
\* ------------------------------------------------------------------------
C19_SerialFailureDowngrades ==
    /\ ctor_fault => simulation_mode
    /\ io.fault => simulation_mode

\* ------------------------------------------------------------------------
\* C20: in hardware mode each move_to call (six angles, serial channel
\* working) transmits exactly one packet holding the six transmitted angles and
\* performs at most one acknowledgement read; whether the ack is 'K', garbled,
\* missing, or the read raises, the command is never re-sent, move_to returns
\* success and the stored pose is updated.
\* ------------------------------------------------------------------------
C20_OnePacketNoRetry ==
    (MoveToReturned /\ ~simulation_mode /\ Len(call.arg) = NumJoints /\ ~io.fault) =>
        /\ io.tx = 1
        /\ io.reads <= 1
        /\ armRet = "True"
        /\ current_angles = Clamp(call.arg)
        /\ Len(packet) = NumJoints
        /\ packet = HardwareAngles(Clamp(call.arg))

\* A hardware move_to whose acknowledgement read raised has returned.
C20_Witness ==
    /\ MoveToReturned /\ ~simulation_mode /\ Len(call.arg) = NumJoints
    /\ io.tx = 1 /\ call.ack = "raises"
    /\ armRet = "True"

\* ------------------------------------------------------------------------
\* C13: every state of the servoing controller is left within a wall-clock
\* timeout or a maximum iteration count: for every detection stream (target
\* never seen, error never shrinking, detection repeatedly lost) a started
\* session reaches a terminal state without stop() being called. Stated for
\* the loop thread of a session: once started, it eventually ends.
\* ------------------------------------------------------------------------
C13_SessionTerminates ==
    \A t \in Threads : (tpc[t] = "start") ~> (tpc[t] = "done")

\* ------------------------------------------------------------------------
\* C14: stop() on a servoing session is idempotent and bounded. From the moment
\* stop() has cleared the flag until it returns, and after it has returned until
\* the next start, running is False; and a stop() that follows a stop() with no
\* start in between changes nothing of the controller, the arm or the camera
\* state: neither its first step nor its return from the join does.
ServoProgramState ==
    <<running, thread, state, search_dir, centered_frames, use_mlp, use_anfis,
      servo_target, tpc, current_base, align_error_x, reach, armVars, percVars>>

ArmMotion == <<current_angles, packet, txCount, io, armRet>>

LastReading == readings[Len(readings)]

KinematicFault ==
    /\ Len(readings) > 0
    /\ LastReading.found
    /\ LastReading.distance_cm > grab_distance_C
    /\ \/ CheckReachability(LastReading.distance_cm) # "Reachable"
       \/ GetWristAngles(LastReading.distance_cm) = <<>>

KinematicReasons ==
    {"Object too close", "Object out of reach", "Object too close to body", "IK failed"}

C16_FailedMoveNeverComplete ==
    grab_state = "complete" => armRet # "False"

\* ------------------------------------------------------------------------
\* C14, grab side: while stop() of the grab controller joins the workflow thread
\* the running flag is False, and a stop() made on a controller that is already
\* stopped (flag False, state IDLE) changes nothing of the controller, the arm
\* or the camera state.
GrabProgramState ==
    <<grab_state, grab_running, grab_target, error_message, grabPc, grab_centered,
      iteration, grab_angles, armVars, percVars>>

C14_GrabStopIdempotent ==
    /\ [](grabCallerPc = "joining" => ~grab_running)
    /\ [][((StopGrab \/ StopGrabReturn) /\ ~grab_running /\ grab_state = "idle")
            => UNCHANGED GrabProgramState]_vars

\* ------------------------------------------------------------------------
\* C21: the list published by an inference cycle holds a Detection of source
\* TRACKER only if, in that cycle, no detector box matched the target, a tracker
\* session seeded by an earlier detector match was active and the last known
\* distance was below the near threshold of 15 cm; and a cycle without a
\* detector match in which no session was active, or the last known distance
\* was 15 cm or more, publishes the empty list.
TrackerPublished ==
    \E i \in 1..Len(cycle.published) : cycle.published[i].source = "TRACKER"

NoDetectorMatch == BestDet(cycle.boxes, cycle.target) = <<>>

C21_TrackerOnlyInBlindZone ==
    /\ TrackerPublished =>
          /\ NoDetectorMatch
          /\ cycle.was_active /\ tracker_seed.cls # "none"
          /\ cycle.dist_before < NEAR_THRESHOLD_C
    /\ (NoDetectorMatch /\ ~(cycle.was_active /\ cycle.dist_before < NEAR_THRESHOLD_C))
          => cycle.published = <<>>

\* A cycle in the blind zone has published the tracker's box, the detector
\* having matched nothing in a frame that was not empty.
C21_Witness ==
    /\ TrackerPublished
    /\ cycle.boxes # <<>>
    /\ last_detection = cycle.published

\* ------------------------------------------------------------------------
\* C22: the inference loop holds the frame-handoff lock only around its copy of
\* the latest frame: while a detection runs the lock is not held by the
\* inference loop, so a capture loop that waits to publish finds the lock free;
\* and the frame a detection works on is the one that was the newest published
\* frame when the copy was made.
C22_InferenceNeverBlocksCapture ==
    /\ infPc = "detect" => inference_lock # "inference"
    /\ (infPc = "detect" /\ hcapPc = "acquire") => inference_lock = "free"
    /\ inference_lock = "inference" => infPc = "locked"
    /\ infPc = "detect" => (frame_to_process = newest_at_copy /\ frame_to_process # 0)
    /\ infPc = "locked" => newest_at_copy <= latest_frame_for_inference

\* While a detection runs on frame 1 the capture loop has published two newer
\* frames.
C22_Witness ==
    /\ infPc = "detect"
    /\ frame_to_process = 1
    /\ latest_frame_for_inference = 3

\* ------------------------------------------------------------------------
\* C23: whatever the inference cycle and the target changes do in between, a
\* response of get_detection_result with status 'found' carries a non-empty
\* Detection list whose reported count is the length of that list.
C23_FoundIsOneSnapshot ==
    qResp.status = "found" => (qResp.data # <<>> /\ qResp.count = Len(qResp.data))

\* ------------------------------------------------------------------------
\* C24: every non-empty list in last_detection was built by a cycle that read
\* the target now set, and, when a target is set, holds only detections of that
\* label.
C24_PublishedListIsForCurrentTarget ==
    last_detection # <<>> =>
        /\ published_for = target_object
        /\ target_object # "none" =>
              \A i \in 1..Len(last_detection) : last_detection[i].object_name = target_object

\* ------------------------------------------------------------------------
\* C25: once the state of a grab session is COMPLETE or FAILED, no step other
\* than the start of the next session changes the reported state or the
\* recorded error string, and none moves the arm.
GrabTerminal == grab_state \in {"complete", "failed"}

C25_TerminalStatesStay ==
    [][(GrabTerminal /\ ~(grab_running' /\ ~grab_running))
          => UNCHANGED <<grab_state, error_message, ArmMotion>>]_vars

\* ------------------------------------------------------------------------
\* C26: for an object at height 5 cm, every distance from 20 cm to 35 cm is
\* reported reachable with shoulder and elbow angles within [0,180], and 40 cm
\* is reported out of reach.
IkAnswered == ikPc = "idle" /\ ik_distance # 0

C26_ReachableFrom20To35 ==
    IkAnswered =>
        /\ (ik_distance >= 2000 /\ ik_distance <= 3500) =>
              /\ ik_reason = "Reachable"
              /\ ik_angles # <<>>
              /\ \A i \in 1..Len(ik_angles) : ik_angles[i] >= 0 /\ ik_angles[i] <= 180
        /\ ik_distance = 4000 => ik_reason = "Object out of reach"

\* C26, what the solver does: the distance is reachable exactly when the wrist
\* target (distance - 2 cm) is at least 5 cm away and lies within 28 cm of the
\* shoulder, which of the distances tried means from 7 cm to 29.5 cm; the
\* angles of a reachable distance are within [0,180].
C26_ReachableUpTo29 ==
    IkAnswered =>
        /\ ik_reason = "Reachable" <=> (ik_distance >= 700 /\ ik_distance <= 2950)
        /\ ik_reason = "Reachable" =>
              /\ ik_angles # <<>>
              /\ \A i \in 1..Len(ik_angles) : ik_angles[i] >= 0 /\ ik_angles[i] <= 180
        /\ ik_distance > 2950 => ik_reason = "Object out of reach"

\* ------------------------------------------------------------------------
\* C27: a pick-and-place sequence that is not interrupted (no stop(), no
\* command refused by the arm) writes the states LIFTING, ROTATING, LOWERING,
\* RELEASING, RETURNING in that order and nothing else before COMPLETE, and
\* when its thread has ended the state is COMPLETE, running is False and the
\* arm is at HOME_POSITION.
\* ------------------------------------------------------------------------
IsPrefix(s, t) == Len(s) <= Len(t) /\ \A i \in 1..Len(s) : s[i] = t[i]

PickEnded == ppPc = "done"

C27_UninterruptedSequenceCompletes ==
    /\ ~pp_stopped => IsPrefix(pp_phases, PhaseOrder \o <<"COMPLETE">>)
    /\ (PickEnded /\ ~pp_stopped) =>
           /\ pp_phases = PhaseOrder \o <<"COMPLETE">>
           /\ pp_state = "COMPLETE" /\ telemetry_state = "COMPLETE"
           /\ ~pp_running
    /\ (PickEnded /\ ~pp_stopped /\ ~pp_failed) => current_angles = HOME_POSITION

\* A sequence started from the grabbed pose towards base angle 0 has run to
\* its end on its own and left the arm at home.
C27_Witness ==
    /\ PickEnded /\ ~pp_stopped /\ ~pp_failed
    /\ pp_state = "COMPLETE"
    /\ target_base_angle = 0
    /\ pp_phases = PhaseOrder \o <<"COMPLETE">>
    /\ current_angles = HOME_POSITION

\* ------------------------------------------------------------------------
\* C29: once stop() has taken effect on a running pick-and-place sequence, the
\* thread begins no further phase and sends no gripper-release command, the
\* state is never COMPLETE, and when the thread has ended running is False
\* and the state is STOPPED.
\* ------------------------------------------------------------------------
C29_StopHaltsSequence ==
    pp_stopped =>
        /\ ~pp_after_stop.begun
        /\ ~pp_after_stop.released
        /\ pp_state # "COMPLETE"
        /\ PickEnded => (~pp_running /\ pp_state = "STOPPED")

\* ------------------------------------------------------------------------
\* C28: a loop thread that was alive when stop() was called before its
\* gripper-close command never closes the gripper afterwards and never
\* invokes on_grab_complete.
\* ------------------------------------------------------------------------
C28_StopBeforeCloseHonoured ==
    \A t \in stoppedEarly : t \notin grasped /\ cbCount[t] = 0

\* ------------------------------------------------------------------------
\* C30: a tracker-source Detection is published only while the tracker
\* session is one that was seeded by a detector match made for the target
\* whose label the Detection carries, and a tracker session never outlives a
\* change of the target.
\* ------------------------------------------------------------------------
C30_TrackerSessionBelongsToTarget ==
    /\ \A i \in 1..Len(last_detection) :
           (last_detection[i].source = "TRACKER" /\ target_object # "none") =>
               tracker_seed.cls = last_detection[i].object_name
    /\ tracking_active => tracker_seed.target = target_object

\* ------------------------------------------------------------------------
\* C31: after a get_target cycle in which the detector matched, the tracker
\* session is active and seeded from that cycle's box; after a cycle in which
\* the detector found nothing and the tracker update failed, the session is
\* discarded; without a session a cycle with no detector match returns no
\* detection; and a discarded session comes back only in a cycle in which the
\* detector matched.
\* ------------------------------------------------------------------------
SessionAfterCycle ==
    /\ (cycle.hybrid /\ ~NoDetectorMatch) =>
           LET best == BestDet(cycle.boxes, cycle.target) IN
           /\ tracking_active
           /\ last_bbox = ClampBBox(XYWH(best.xyxy))
           /\ tracker_seed = [target |-> cycle.target, cls |-> best.cls]
           /\ cycle.result = [source |-> "YOLO", bbox |-> last_bbox]
    /\ (cycle.hybrid /\ NoDetectorMatch /\ cycle.was_active /\ ~cycle.upd_ok) =>
           /\ ~tracking_active
           /\ cycle.published = <<>>
    /\ (NoDetectorMatch /\ ~cycle.was_active) =>
           /\ ~tracking_active
           /\ cycle.published = <<>>

StopReturned == stopped /\ stopPc = "idle"

C32_StopNeverRaisesAndReleases ==
    /\ ~stopRaised
    /\ StopReturned => video # "open"

\* ------------------------------------------------------------------------
\* C33: every SEARCHING cycle commands a base angle within [0,180] that is
\* one step (1 degree) from the thread's previous base angle in the current
\* sweep direction, and the sweep direction reverses exactly when the base
\* arrives at 0 or 180.
\* ------------------------------------------------------------------------
SweepStepOf(t) == tpc[t] = "cycle" /\ state' = "SEARCHING"

SweepCommandOk(t) ==
    /\ current_base'[t] \in 0..180
    /\ packet' # <<>> /\ packet'[1] = current_base'[t]
    /\ search_dir' = IF current_base'[t] \in {0, 180} THEN -search_dir ELSE search_dir

ReachNotGivenUp(t) ==
    (reachCount'[t] > reachCount[t]) => (tpc'[t] = "reach" /\ running' = running)

C34_MissingArtifactNonFatal ==
    [][\A t \in Threads : ReachNotGivenUp(t)]_vars

\* ------------------------------------------------------------------------
\* C35: the gripper through a ContinuousGrabController session
\* ------------------------------------------------------------------------
\* A command reached the arm in this step.
Transmitted == packet' # packet

\* The open command L141-143 goes out before centering starts.
OpenBeforeCentering ==
    (grabPc = "begin" /\ grabPc' = "centering" /\ Transmitted)
        => packet'[6] = GRIPPER_OPEN

\* The close command L296-301 follows a reading inside the grab distance.
CloseAfterCloseReading ==
    (grabPc = "approach" /\ grabPc' = "lifting")
        => /\ LastReading'.found
           /\ 0 < LastReading'.distance_cm
           /\ LastReading'.distance_cm <= grab_distance_C
           /\ Transmitted => packet'[6] = GRIPPER_CLOSED

\* The lift command L309-314 follows the close command, gripper still closed.
LiftAfterClose ==
    (grabPc = "lifting" /\ grabPc' = "finish")
        => /\ grab_angles[6] = GRIPPER_CLOSED
           /\ grab_angles' = [grab_angles EXCEPT ![2] = Min(180, @ + LIFT_DEGREES)]
           /\ Transmitted => (packet'[6] = GRIPPER_CLOSED /\ packet'[2] = grab_angles'[2])

\* An approach command L262-277 went out in this step.
ApproachCommand == grabPc = "approach" /\ grabPc' = "approach" /\ Transmitted

\* C35: in a session of the grab workflow the open command precedes centering,
\* every approach command keeps the gripper open (170), the close command (120)
\* follows a reading with 0 < distance <= grab_distance, and the lift (shoulder
\* +15 capped at 180, gripper closed) follows the close command.
C35_GripperOpenUntilClose ==
    [][ /\ OpenBeforeCentering
        /\ ApproachCommand => packet'[6] = GRIPPER_OPEN
        /\ CloseAfterCloseReading
        /\ LiftAfterClose ]_vars

\* ------------------------------------------------------------------------
\* C36: the poses commanded by VisualGrabController's approach phase
\* ------------------------------------------------------------------------
\* Base, wrist pitch and wrist roll of pose p are those of pose q.
SameFixedAxes(p, q) == p[1] = q[1] /\ p[4] = q[4] /\ p[5] = q[5]

\* C36: every pose commanded in the approach phase keeps base, wrist pitch and
\* wrist roll at their values at the end of alignment, and keeps the gripper
\* open (170) until the grab, whatever the stopped servoing agent's thread does
\* in between.
C36_ApproachKeepsAlignedAxes ==
    vg_cmd # <<>> =>
        /\ SameFixedAxes(vg_cmd, vg_aligned)
        /\ vgPc = "approach" => vg_cmd[6] = GRIPPER_OPEN

\* ------------------------------------------------------------------------
\* C37: what move_to transmits and what it stores
\* ------------------------------------------------------------------------
\* The packet for logical pose c: wrist roll as 180 - c, the rest as it is.
RollInverted(p, c) ==
    /\ Len(p) = NumJoints
    /\ p[5] = 180 - c[5]
    /\ \A i \in (1..NumJoints) \ {5} : p[i] = c[i]

\* A step of a move_to called directly, on a hardware arm whose link is up.
DirectMoveSent ==
    /\ armPc = "idle" /\ seq_i < 0 /\ seq_i' < 0
    /\ ~simulation_mode /\ link = "up" /\ link' = link
    /\ call'.op = "move_to" /\ Len(call'.arg) = NumJoints

\* C37: every move_to transmits wrist roll (index 4) as 180 minus its clamped
\* logical value and every other joint as its clamped logical value, and
\* current_angles stores the clamped logical pose.
C37_WristRollInvertedOnTheWire ==
    [][ /\ DirectMoveSent =>
              /\ RollInverted(packet', Clamp(call'.arg))
              /\ current_angles' = Clamp(call'.arg)
        /\ packet' # packet => RollInverted(packet', current_angles')
        /\ (armPc = "interp" /\ seq_i < 0 /\ call.op = "move_to")
              => current_angles' = Clamp(call.arg) ]_vars

C37_Witness ==
    /\ ~simulation_mode
    /\ call.op = "move_to" /\ call.arg = <<-10, 181, 151, 90, 0, 119>>
    /\ packet = <<0, 180, 150, 90, 180, 120>>
    /\ current_angles = <<0, 180, 150, 90, 0, 120>>

\* ------------------------------------------------------------------------
\* C38: the commands of move_to_sequenced
\* ------------------------------------------------------------------------
\* The loop of move_to_sequenced is at joint seq_i and the link does not change.
SeqAtJoint == armPc = "idle" /\ seq_i \in 0..(NumJoints - 1) /\ link' = link

\* The joint of this iteration is not at its target: move_to is called.
SeqCalls == SeqAtJoint /\ Abs(current_angles[seq_i + 1] - seq_target[seq_i + 1]) >= 1

\* ... and the command goes out (simulated, or written to the board).
SeqCommands == SeqCalls /\ (simulation_mode \/ link = "up")

\* The logical pose that command carries.
SeqCommandedPose == IF simulation_mode THEN move_target' ELSE current_angles'

\* The joints in which the command differs from the pose before it.
SeqChangedJoints == { j \in 1..NumJoints : SeqCommandedPose[j] # current_angles[j] }

\* A joint at its target is passed over without a command; a failed move ends
\* the call with nothing changed; the loop never goes back.
SeqOrderSkipAndFailure ==
    /\ (SeqAtJoint /\ ~SeqCalls) =>
          /\ seq_i' = seq_i + 1
          /\ UNCHANGED <<current_angles, packet, txCount, armPc, move_target>>
    /\ (SeqCalls /\ ~SeqCommands) =>
          /\ seq_i' = -1 /\ armRet' = "False"
          /\ UNCHANGED <<current_angles, packet, txCount>>
    /\ (SeqCommands /\ ~simulation_mode) => seq_i' = seq_i + 1
    /\ seq_i >= 0 => seq_i' \in {seq_i, seq_i + 1, -1}

\* C38 as stated: every command of move_to_sequenced differs from the pose
\* before it in exactly one joint, joints are committed in increasing order, a
\* joint at its target produces no command, and a failed move ends the call
\* with the later joints left as they were.
C38_ExactlyOneJointPerCommand ==
    [][ /\ SeqCommands => \E j \in 1..NumJoints : SeqChangedJoints = {j}
        /\ SeqOrderSkipAndFailure ]_vars

\* C38 amended: a command changes no joint but the one of its iteration, and
\* changes that one unless the target lies beyond a safety limit the joint
\* already stands on.
C38_AtMostTheJointOfTheIteration ==
    [][ /\ SeqCommands =>
              /\ SeqChangedJoints \subseteq {seq_i + 1}
              /\ SeqChangedJoints = {} =>
                     Clamp(seq_target)[seq_i + 1] = current_angles[seq_i + 1]
        /\ SeqOrderSkipAndFailure ]_vars

C38_Witness ==
    /\ call.op = "move_to_sequenced" /\ call.arg = <<23, 100, 140, 90, 12, 155>>
    /\ seq_i = -1 /\ armRet = "False" /\ link = "down"
    /\ current_angles[1] = 23 /\ current_angles[3] = 140
    /\ current_angles[4] = 90 /\ current_angles[5] # 12 /\ current_angles[6] # 155

====
